---- MODULE Spec2Model ----
(***************************************************************************)
(* A model of the media session coordinator of go-livepeer                 *)
(* (src/mediaserver/mediaserver.go): the RTMP publish handlers, the HLS    *)
(* play handlers with their subscriber callback, and the idle worker that  *)
(* unsubscribes inactive HLS streams.                                      *)
(*                                                                         *)
(* PubSpec is the publish side, SubSpec the subscribe side.  Each handler  *)
(* is a process; one action is one step of a handler between two accesses  *)
(* to shared state (the StreamDB, the server's maps, the network).         *)
(***************************************************************************)
EXTENDS Integers, Sequences, FiniteSets, TLC

\* ------------------------------------------------------------------ bounds
\* Concurrent RTMP publish connections.
NumPub == 2
\* Distinct stream ids the RTMP connections may carry (a small set, so that
\* two connections can carry the same id).
NumRtmpIds == 2

\* Concurrent HLS media-playlist requests.
NumReq == 2
\* Stream ids the playlist and segment requests may name.
NumSids == 1
\* Segments the network delivers into one HLS buffer before it stops (at
\* least HLSBufferWindow, for a playlist to be served).
MaxSegs == 5
\* HLS buffer objects the StreamDB may allocate.
MaxBufs == 2
\* The clock stops at MaxTime ticks.
MaxTime == 4
\* Where requests stop and the worker is followed on: requests start up to
\* tick StartBy, the clock stops at MaxReapTime ticks.
StartBy == 1
MaxReapTime == 6

\* The wait loop of the media-playlist handler is followed for MaxWaitTicks
\* ticks of 100 ms.
MaxWaitTicks == 110

\* Telemetry: broadcast sessions (nonces) and the sequence numbers of their
\* segments.
NumNonces == 2
NumSeqNos == 3
\* Telemetry events followed in one behaviour.
MaxCenEvents == 5
\* The telemetry clock stops at MaxRateTime when all sessions are followed
\* and at MaxCenTime when one is (units of 500 ms).
MaxRateTime == 30
MaxCenTime == 60
\* The telemetry clock of the fair watcher stops at MaxLiveTime.
MaxLiveTime == 120

\* Moving averages: the samples added in one behaviour and the longest time
\* between two of them (units of 30 seconds).
MaxSamples == 4
MaxGap == 3

\* Ring arrays on their own: the largest initial capacity and the calls made
\* in one behaviour.
MaxCap == 3

\* The tries of one segment that are followed.
MaxTries == 12
MaxRingOps == 7

\* Discovery: the orchestrators in the store and the refresh cycles of the
\* poller that are followed.
NumOrchs == 2
MaxCycles == 2
\* The ticks of the poller's ticker in one behaviour.
MaxTicks == 6
\* The largest round a transcoder carries.
MaxRound == 5
\* The gas a receipt of a job transaction may report, from 1 up.
MaxGasUsed == 4
\* The first of the two years in which policies are created.
FirstYear == 2019

\* ------------------------------------------------------- program constants
\* Time is counted in ticks of 5 seconds.
\* go s.startHlsUnsubscribeWorker(time.Second*10, HLSUnsubWorkerFreq)
IdleLimit == 2
\* HLSUnsubWorkerFreq = time.Second * 5
UnsubFreq == 1
\* for time.Since(start) < time.Second*10
HLSWaitTime == 2
\* HLSBufferWindow = uint(5)
HLSBufferWindow == 5
\* const S3_POLICY_EXPIRE_IN_HOURS = 24
S3_POLICY_EXPIRE_IN_HOURS == 24
\* BroadcastPrice = big.NewInt(150)
BroadcastPrice == 150

\* In ticks of 100 ms:
\* for time.Since(start) < time.Second*10
PollWait == 100
\* time.Sleep(2 * time.Second), when the StreamDB has no buffer
NilBufSleep == 20
\* time.Sleep(100 * time.Millisecond), when the buffer has no playlist
PlaylistSleep == 1

\* Telemetry, in units of 500 ms:
\* var timeToWaitForError = 8500 * time.Millisecond
TimeToWaitForError == 17
\* var timeoutWatcherPause = 15 * time.Second
TimeoutWatcherPause == 30
\* The telemetry clock advances in steps of 15 seconds.
CenTick == 30
\* numberOfSegmentsToCalcAverage = 30: the entries of a success averager,
\* scaled down.
RingSize == 2
\* time.Time{}, long ago.
ZeroTime == -1000
\* No entry in an emerge-time map.
NoCenTime == -1
\* newMovingAverage(time.Minute, 128): the window in units of 30 seconds and
\* the initial size of the ring array, scaled down.
WindowSize == 2
DataSize == 2

\* math.MaxInt64, as far as the numbers of the model go.
MaxInt64 == 2147483647

Nil == 0
\* No token balance was read.
NoBalance == -1
\* No entry in hlsSubTimer.
NoTime == -1

Reqs == 1 .. NumReq
Sids == 1 .. NumSids
BufIds == 1 .. MaxBufs

Pubs == 1 .. NumPub
RtmpIds == 1 .. NumRtmpIds
\* The HLS stream of a publish gets a fresh random id (core.RandomVideoID):
\* one per connection, distinct from every RTMP id.
HlsId(h) == NumRtmpIds + h

\* Token balances the on-chain client may report.
Balances == {BroadcastPrice - 1, BroadcastPrice}

VARIABLES
    \* ---- publish side
    ethOn,       \* s.LivepeerNode.Eth != nil
    streams,     \* StreamDB: the ids of the registered streams
    rtmpToHLS,   \* s.broadcastRtmpToHLSMap: RTMP id -> HLS id (Nil: no entry)
    pc,          \* position of each publish handler (got-stream callback)
    rtmpId,      \* the stream id of the connection's RTMP stream
    bal,         \* the token balance the handler read (NoBalance: none)
    result,      \* what the got-stream handler returned ("none": running)
    jobs,        \* outcomes of the createBroadcastJob calls of the handler
    waitRes,     \* outcome of eth.WaitUntilNextRound ("none": not called)
    seg,         \* the segmenter goroutine of the session
    eofWrite,    \* the write of the EOF segment to the HLS stream: "none",
                 \* "ok" or "err"
    bcast,       \* the BroadcastToNetwork goroutine of the session runs
    endpc,       \* position of the connection's end-stream handler
    \* ---- subscribe side
    now,         \* the clock, in ticks
    hlsBuffers,  \* StreamDB: stream id -> its HLS buffer object (Nil: none)
    bufObj,      \* the HLS buffer objects: segments inserted, EOF written
    nbufs,       \* HLS buffer objects allocated so far
    hlsSubTimer, \* s.hlsSubTimer: stream id -> time (NoTime: no entry)
    rpc,         \* position of each media-playlist request
    rsid,        \* strmID of the request
    rstart,      \* start := time.Now() of the request
    rres,        \* what the request returned ("none": running)
    cbBuf,       \* the variable buf of the request, which its subscriber
                 \* callback captures: a buffer object or Nil
    sub,         \* the subscription the request made: "none", "active",
                 \* "closed"
    wpc,         \* position of the unsubscribe worker
    wake,        \* when the worker's sleep ends
    wTodo,       \* stream ids the worker's range loop has yet to visit
    wSid,        \* the stream id the worker is unsubscribing
    fault,       \* a handler dereferenced a nil buffer: the process is down
    \* ---- the wait loop of the media-playlist handler, in ticks of 100 ms
    plNow,       \* time.Since(start)
    plpc,        \* position of the handler: "loop", "sleep", "done"
    plWake,      \* when the handler's sleep ends
    plSlept,     \* the length of the handler's last sleep (0: none yet)
    plBuf,       \* the HLS buffer of the stream in the StreamDB
    plRes,       \* what the handler returned ("none": running)
    plEnd,       \* time.Since(start) when the handler returned
    \* ---- the segment handler
    segReq,      \* the last segment request: stream id, whether it is a
                 \* master playlist id, whether the path has a segment
                 \* name, and what the buffer's segment fetch returns
    segRes,      \* what the segment handler returned to it ("none": no
                 \* request yet)
    \* ---- telemetry
    cenNow,      \* time.Now()
    success,     \* cen.success: nonce -> its segmentsAverager, with the
                 \* tries of its segments
    emergeTimes, \* cen.emergeTimes: nonce -> seqNo -> time
    mSuccessRate,\* the success rate last recorded by sendSuccess
    watcherWake, \* when the sleep of the timeout watcher ends
    cenEvents,   \* telemetry events reported so far
    \* ---- a moving average, in units of 30 seconds
    avgNow,      \* the time of the last sample
    ma,          \* the movingAverage: its window and its ring array
    samples,     \* every sample added so far, in order
    avgRes,      \* what the last addSample returned
    \* ---- orchestrator discovery
    dbPrice,     \* the store: orchestrator -> PricePerPixel of its record
    cpc,         \* position of cacheDBOrchs: "idle" or "recv" (in its
                 \* receive loop)
    wk,          \* the getOrchInfo goroutines of the cycle: "none", "run",
                 \* "sendRes" or "sendErr" (blocked on its channel), "done"
    wkPrice,     \* dbOrch.PricePerPixel of the goroutine's record
    recvd,       \* i of the receive loop
    ctxDone,     \* the timeout of the cycle's context has expired
    cycles,      \* refresh cycles completed
    leaked,      \* goroutines of completed cycles that never delivered
    lastDone,    \* the store as the last completed cycle left it
    prevDone,    \* the store as the completed cycle before that left it
    poolRead,    \* the last select of the pool: its MaxPrice, what it
                 \* returned, and lastDone and prevDone at that moment
    goRes,       \* the last GetOrchestrators call: its inputs and result
    discFault,   \* a goroutine panicked: the process is down
    rpcOk,       \* per orchestrator: it replied in time in this cycle and its
                 \* price was converted
    stored,      \* per orchestrator: UpdateOrch wrote its record in this cycle
    \* ---- the control endpoints
    cfg,         \* the configuration: BroadcastPrice,
                 \* BroadcastJobVideoProfile, TranscoderFeeCut,
                 \* TranscoderRewardCut, TranscoderSegmentPrice
    ctlReq,      \* the last control request: its endpoint and query
    ctlRes,      \* the response to it: status and the texts of the body
    \* ---- the metrics the telemetry records
    mSegmentEmerged,          \* records of the measure mSegmentEmerged
    mSegmentTranscodeFailed,  \* records of mSegmentTranscodeFailed
    emergedFor,  \* nonce -> seqNo -> records of mSegmentEmerged for the
                 \* segment since its last segmentEmerged call
    seen,        \* nonce -> seqNo -> what was reported to the averager of
                 \* the nonce for the segment since the stream was created
    lastEv,      \* the last telemetry event: the call, the state it found
                 \* and the metrics it recorded
    \* ---- a ring array on its own
    ring,        \* the ringArray: data, head, tail
    fifo,        \* the samples pushed and not yet popped, oldest first
    ringOut,     \* what the last pop() or average() returned
    ringOps,     \* the calls made so far
    \* ---- the poller of orchestrator info
    ppc,         \* pollOrchestratorInfo: "start", "sync", "done", "failed"
    bg,          \* its goroutine: "none", "select", "cycle", "exit"
    tickReady,   \* a tick waits in ticker.C
    ticks,       \* the ticks the ticker has sent
    pollCtx,     \* the context of the poller is cancelled
    pollCycles,  \* the calls of cacheDBOrchs so far
    lateCycles,  \* those of them started after the context was cancelled
    \* ---- the conversion of a transcoder to a pool record
    convIn,      \* the *lpTypes.Transcoder that was converted last
    convOut,     \* what ethOrchToDBOrch returned for it, or that it panicked
    \* ---- createBroadcastJob on its own
    jobIn,       \* what the chain answered to the last call
    jobOut,      \* the transaction and the error the call returned
    \* /activateTranscoder
    apc,         \* where the handler of /activateTranscoder stands
    asteps,      \* the steps it has carried out, in order
    atxs,        \* the transactions it has submitted, in order
    afailed,     \* the number of the first step that failed, or 0
    alogged,     \* the errors it has logged and gone on after
    aregGas,     \* gas used of the registration's receipt, or 0
    abondGas,    \* gas used of the bond's receipt, or 0
    \* the S3 session
    s3In,        \* the arguments of the last call of createPolicy or postData
    s3Out        \* what the call built

pubVars == << ethOn, streams, rtmpToHLS, pc, rtmpId, bal, result, jobs, waitRes,
              seg, eofWrite, bcast, endpc >>

subVars == << now, hlsBuffers, bufObj, nbufs, hlsSubTimer, rpc, rsid, rstart,
              rres, cbBuf, sub, wpc, wake, wTodo, wSid, fault >>

waitVars == << plNow, plpc, plWake, plSlept, plBuf, plRes, plEnd >>

segVars == << segReq, segRes >>

cenVars == << cenNow, success, emergeTimes, mSuccessRate, watcherWake,
              cenEvents >>

avgVars == << avgNow, ma, samples, avgRes >>

discVars == << dbPrice, cpc, wk, wkPrice, recvd, ctxDone, cycles, leaked,
               lastDone, prevDone, poolRead, goRes, discFault, rpcOk,
               stored >>

ctlVars == << cfg, ctlReq, ctlRes >>

metVars ==
    << mSegmentEmerged, mSegmentTranscodeFailed, emergedFor, seen, lastEv >>

ringVars == << ring, fifo, ringOut, ringOps >>

pollVars ==
    << ppc, bg, tickReady, ticks, pollCtx, pollCycles, lateCycles >>

convVars == << convIn, convOut >>

jobVars == << jobIn, jobOut >>

actVars == << apc, asteps, atxs, afailed, alogged, aregGas, abondGas >>

s3Vars == << s3In, s3Out >>

vars ==
    << pubVars, subVars, waitVars, segVars, cenVars, avgVars, discVars,
       ctlVars,
       metVars,
       ringVars,
       pollVars,
       convVars,
       jobVars,
       actVars,
       s3Vars >>

\* What the actions of one part of the program leave alone.
notPub ==
    << subVars, waitVars, segVars, cenVars, avgVars, discVars,
       ctlVars,
       metVars,
       ringVars,
       pollVars,
       convVars,
       jobVars,
       actVars,
       s3Vars >>
notSub ==
    << pubVars, waitVars, segVars, cenVars, avgVars, discVars,
       ctlVars,
       metVars,
       ringVars,
       pollVars,
       convVars,
       jobVars,
       actVars,
       s3Vars >>
notWait ==
    << pubVars, subVars, segVars, cenVars, avgVars, discVars,
       ctlVars,
       metVars,
       ringVars,
       pollVars,
       convVars,
       jobVars,
       actVars,
       s3Vars >>
notSeg ==
    << pubVars, subVars, waitVars, cenVars, avgVars, discVars,
       ctlVars,
       metVars,
       ringVars,
       pollVars,
       convVars,
       jobVars,
       actVars,
       s3Vars >>
notCen ==
    << pubVars, subVars, waitVars, segVars, avgVars, discVars,
       ctlVars,
       metVars,
       ringVars,
       pollVars,
       convVars,
       jobVars,
       actVars,
       s3Vars >>
notAvg ==
    << pubVars, subVars, waitVars, segVars, cenVars, discVars,
       ctlVars,
       metVars,
       ringVars,
       pollVars,
       convVars,
       jobVars,
       actVars,
       s3Vars >>
notDisc ==
    << pubVars, subVars, waitVars, segVars, cenVars, avgVars,
       ctlVars,
       metVars,
       ringVars,
       pollVars,
       convVars,
       jobVars,
       actVars,
       s3Vars >>
notCtl ==
    << pubVars, subVars, waitVars, segVars, cenVars, avgVars,
       discVars,
       metVars,
       ringVars,
       pollVars,
       convVars,
       jobVars,
       actVars,
       s3Vars >>
notMet ==
    << pubVars, subVars, waitVars, segVars, avgVars, discVars,
       ctlVars,
       ringVars,
       pollVars,
       convVars,
       jobVars,
       actVars,
       s3Vars >>

notRing ==
    << pubVars, subVars, waitVars, segVars, cenVars, avgVars, discVars,
       ctlVars, metVars,
       pollVars,
       convVars,
       jobVars,
       actVars,
       s3Vars >>

notPoll ==
    << pubVars, subVars, waitVars, segVars, cenVars, avgVars, discVars,
       ctlVars, metVars, ringVars,
       convVars,
       jobVars,
       actVars,
       s3Vars >>

notConv ==
    << pubVars, subVars, waitVars, segVars, cenVars, avgVars, discVars,
       ctlVars, metVars, ringVars, pollVars,
       jobVars,
       actVars,
       s3Vars >>

notJob ==
    << pubVars, subVars, waitVars, segVars, cenVars, avgVars, discVars,
       ctlVars, metVars, ringVars, pollVars, convVars,
       actVars,
       s3Vars >>

notAct ==
    << pubVars, subVars, waitVars, segVars, cenVars, avgVars, discVars,
       ctlVars, metVars, ringVars, pollVars, convVars, jobVars,
       s3Vars >>

notS3 ==
    << pubVars, subVars, waitVars, segVars, cenVars, avgVars, discVars,
       ctlVars, metVars, ringVars, pollVars, convVars, jobVars, actVars >>

\* ------------------------------------------------------------ the StreamDB
\* get_stream(id) -> stream?
GetStream(db, id) == id \in db

\* add_stream(id, stream) -> ok | exists: rejects duplicates.
AddStream(db, id) ==
    IF id \in db THEN [err |-> TRUE, db |-> db]
                 ELSE [err |-> FALSE, db |-> db \cup {id}]

\* delete_stream(id): idempotent.
DeleteStream(db, id) == db \ {id}

\* ------------------------------------------------------ createBroadcastJob
\* The gas limit of the job transaction and the gas a receipt may report.
TxGas == 2
GasUsedValues == {1, 2}

\* A call that takes every mined job for a created one.
createBroadcastJob_NoGasCheck(submitErr, minedErr, gasUsed) ==
    IF submitErr \/ minedErr THEN "ErrBroadcast" ELSE "ok"

\* submitErr: Eth.Job failed; minedErr: WaitForMinedTx failed; the job was
\* reverted when the receipt's gas used equals the transaction's gas.
createBroadcastJob(submitErr, minedErr, gasUsed) ==
    IF submitErr THEN "ErrBroadcast"
    ELSE IF minedErr THEN "ErrBroadcast"
    ELSE IF TxGas = gasUsed THEN "ErrBroadcast"
    ELSE "ok"

\* The outcomes of one call, over what the chain may answer.
JobOutcomes ==
    { createBroadcastJob(s, m, g) : s \in BOOLEAN, m \in BOOLEAN,
                                    g \in GasUsedValues }

\* ------------------------------------------------------------------- Init
PubInit ==
    /\ ethOn \in BOOLEAN
    /\ streams = {}
    /\ rtmpToHLS = [i \in RtmpIds |-> Nil]
    /\ pc = [h \in Pubs |-> "idle"]
    /\ rtmpId = [h \in Pubs |-> Nil]
    /\ bal = [h \in Pubs |-> NoBalance]
    /\ result = [h \in Pubs |-> "none"]
    /\ jobs = [h \in Pubs |-> << >>]
    /\ waitRes = [h \in Pubs |-> "none"]
    /\ seg = [h \in Pubs |-> "none"]
    /\ eofWrite = [h \in Pubs |-> "none"]
    /\ bcast = [h \in Pubs |-> FALSE]
    /\ endpc = [h \in Pubs |-> "none"]

\* The handler returns r.
Return(h, r) ==
    /\ pc' = [pc EXCEPT ![h] = "done"]
    /\ result' = [result EXCEPT ![h] = r]

Goto(h, l) ==
    /\ pc' = [pc EXCEPT ![h] = l]
    /\ UNCHANGED result

\* --------------------------------------------- makeGotRTMPStreamHandler
\* A balance check that is off by one.
LowBalance_OffByOne(b) == b < BroadcastPrice - 1

\* if b.Cmp(BroadcastPrice) < 0
LowBalance(b) == b < BroadcastPrice

\* The RTMP connection arrives with its stream; with an on-chain client the
\* handler reads the token balance first (balErr: TokenBalance failed).
GotCheckBalance(h) ==
    /\ pc[h] = "idle"
    /\ \E id \in RtmpIds, balErr \in BOOLEAN, b \in Balances :
        /\ rtmpId' = [rtmpId EXCEPT ![h] = id]
        /\ bal' = [bal EXCEPT ![h] = IF ethOn /\ ~balErr THEN b ELSE NoBalance]
        /\ IF ethOn /\ balErr THEN Return(h, "ErrBroadcast")
           ELSE IF ethOn /\ LowBalance(b) THEN Return(h, "ErrBroadcast")
           ELSE Goto(h, "checkExists")
    /\ UNCHANGED << ethOn, streams, rtmpToHLS, jobs, waitRes, seg, eofWrite,
                    bcast, endpc >>

\* A handler that does not look the stream id up before adding it.
GotCheckExists_NoLookup(h) ==
    /\ pc[h] = "checkExists"
    /\ Goto(h, "addStream")
    /\ UNCHANGED << ethOn, streams, rtmpToHLS, rtmpId, bal, jobs, waitRes, seg,
                    eofWrite, bcast, endpc >>

\* if StreamDB.GetStream(id) != nil { return ErrAlreadyExists }
GotCheckExists(h) ==
    /\ pc[h] = "checkExists"
    /\ IF GetStream(streams, rtmpId[h])
       THEN Return(h, "ErrAlreadyExists")
       ELSE Goto(h, "addStream")
    /\ UNCHANGED << ethOn, streams, rtmpToHLS, rtmpId, bal, jobs, waitRes, seg,
                    eofWrite, bcast, endpc >>

\* A handler that drops the error of AddStream.
GotAddStream_ErrorDropped(h) ==
    /\ pc[h] = "addStream"
    /\ streams' = AddStream(streams, rtmpId[h]).db
    /\ Goto(h, "spawn")
    /\ UNCHANGED << ethOn, rtmpToHLS, rtmpId, bal, jobs, waitRes, seg, eofWrite,
                    bcast, endpc >>

\* if err := StreamDB.AddStream(id, rtmpStrm); err != nil { return ErrRTMPPublish }
GotAddStream(h) ==
    /\ pc[h] = "addStream"
    /\ LET r == AddStream(streams, rtmpId[h])
       IN  /\ streams' = r.db
           /\ IF r.err THEN Return(h, "ErrRTMPPublish")
                       ELSE Goto(h, "spawn")
    /\ UNCHANGED << ethOn, rtmpToHLS, rtmpId, bal, jobs, waitRes, seg, eofWrite,
                    bcast, endpc >>

\* hlsStrm := StreamDB.AddNewStream(...); go SegmentRTMPToHLS...;
\* go BroadcastToNetwork(hlsStrm)
GotSpawn(h) ==
    /\ pc[h] = "spawn"
    /\ seg' = [seg EXCEPT ![h] = "running"]
    /\ bcast' = [bcast EXCEPT ![h] = TRUE]
    /\ Goto(h, "storeHLS")
    /\ UNCHANGED << ethOn, streams, rtmpToHLS, rtmpId, bal, jobs, waitRes, eofWrite,
                    endpc >>

\* StreamDB.AddStream(hlsStrm.GetStreamID(), hlsStrm): the error is dropped.
GotStoreHLS(h) ==
    /\ pc[h] = "storeHLS"
    /\ streams' = AddStream(streams, HlsId(h)).db
    /\ Goto(h, "setMap")
    /\ UNCHANGED << ethOn, rtmpToHLS, rtmpId, bal, jobs, waitRes, seg, eofWrite,
                    bcast, endpc >>

\* s.broadcastRtmpToHLSMap[rtmpStrm.GetStreamID()] = hlsStrm.GetStreamID()
GotSetMap(h) ==
    /\ pc[h] = "setMap"
    /\ rtmpToHLS' = [rtmpToHLS EXCEPT ![rtmpId[h]] = HlsId(h)]
    /\ IF ethOn THEN Goto(h, "job1") ELSE Return(h, "nil")
    /\ UNCHANGED << ethOn, streams, rtmpId, bal, jobs, waitRes, seg, eofWrite,
                    bcast, endpc >>

\* A handler that tears the session down when job creation fails.
JobFailed_Teardown(h) ==
    /\ Return(h, "ErrBroadcast")
    /\ streams' = DeleteStream(DeleteStream(streams, rtmpId[h]), HlsId(h))
    /\ UNCHANGED << rtmpToHLS, seg, eofWrite, bcast >>

\* What the handler does when a job creation fails for good.
JobFailed(h) ==
    /\ Return(h, "ErrBroadcast")
    /\ UNCHANGED << streams, rtmpToHLS, seg, eofWrite, bcast >>

\* tx, err := createBroadcastJob(s, hlsStrm)
GotJob1(h) ==
    /\ pc[h] = "job1"
    /\ \E o \in JobOutcomes :
        /\ jobs' = [jobs EXCEPT ![h] = Append(@, o)]
        /\ IF o = "ok" THEN Return(h, "nil") ELSE Goto(h, "waitRound")
    /\ UNCHANGED << ethOn, streams, rtmpToHLS, rtmpId, bal, waitRes, seg, eofWrite,
                    bcast, endpc >>

\* err = eth.WaitUntilNextRound(...); if err != nil { return ErrBroadcast }
GotWaitRound(h) ==
    /\ pc[h] = "waitRound"
    /\ \E err \in BOOLEAN :
        /\ waitRes' = [waitRes EXCEPT ![h] = IF err THEN "err" ELSE "ok"]
        /\ IF err THEN JobFailed(h)
           ELSE /\ Goto(h, "job2")
                /\ UNCHANGED << streams, rtmpToHLS, seg, eofWrite, bcast >>
    /\ UNCHANGED << ethOn, rtmpId, bal, jobs, endpc >>

\* A handler that keeps retrying after the second failure.
GotJob2_RetryAgain(h) ==
    /\ pc[h] = "job2"
    /\ \E o \in JobOutcomes :
        /\ jobs' = [jobs EXCEPT ![h] = Append(@, o)]
        /\ IF o = "ok" THEN Return(h, "nil") ELSE Goto(h, "job2")
    /\ UNCHANGED << ethOn, streams, rtmpToHLS, rtmpId, bal, waitRes, seg,
                    eofWrite, bcast, endpc >>

\* tx, err = createBroadcastJob(s, hlsStrm); if err != nil { return ErrBroadcast }
GotJob2(h) ==
    /\ pc[h] = "job2"
    /\ \E o \in JobOutcomes :
        /\ jobs' = [jobs EXCEPT ![h] = Append(@, o)]
        /\ IF o = "ok"
           THEN /\ Return(h, "nil")
                /\ UNCHANGED << streams, rtmpToHLS, seg, eofWrite, bcast >>
           ELSE JobFailed(h)
    /\ UNCHANGED << ethOn, rtmpId, bal, waitRes, endpc >>

\* ------------------------------------------- the segmenter goroutine
\* Whether the goroutine writes the EOF segment once SegmentRTMPToHLS has
\* returned (err: it returned an error).
WritesEOFOnExit(err) == err

\* SegmentRTMPToHLS returns, with an error or with nil.
SegmenterReturns(h) ==
    /\ seg[h] = "running"
    /\ \E err \in BOOLEAN :
        seg' = [seg EXCEPT ![h] = IF WritesEOFOnExit(err) THEN "writeEOF"
                                                           ELSE "exited"]
    /\ UNCHANGED << ethOn, streams, rtmpToHLS, pc, rtmpId, bal, result, jobs,
                    waitRes, eofWrite, bcast, endpc >>

\* hlsStrm.WriteHLSSegmentToStream(stream.HLSSegment{EOF: true}); the write
\* may fail, which is logged.
SegmenterWritesEOF(h) ==
    /\ seg[h] = "writeEOF"
    /\ \E err \in BOOLEAN :
        eofWrite' = [eofWrite EXCEPT ![h] = IF err THEN "err" ELSE "ok"]
    /\ seg' = [seg EXCEPT ![h] = "exited"]
    /\ UNCHANGED << ethOn, streams, rtmpToHLS, pc, rtmpId, bal, result, jobs,
                    waitRes, bcast, endpc >>

\* --------------------------------------------- makeEndRTMPStreamHandler
\* The media framework calls the end-stream handler when the publish of a
\* session ends: after the connection's got-stream handler has returned nil.
\* StreamDB.DeleteStream(rtmpStrm.GetStreamID())
EndDeleteRTMP(h) ==
    /\ pc[h] = "done"
    /\ result[h] = "nil"
    /\ endpc[h] = "none"
    /\ streams' = DeleteStream(streams, rtmpId[h])
    /\ endpc' = [endpc EXCEPT ![h] = "deleteHLS"]
    /\ UNCHANGED << ethOn, rtmpToHLS, pc, rtmpId, bal, result, jobs, waitRes, seg,
                    eofWrite, bcast >>

\* An end handler that forgets the HLS stream.
EndDeleteHLS_Forgotten(h) ==
    /\ endpc[h] = "deleteHLS"
    /\ endpc' = [endpc EXCEPT ![h] = "done"]
    /\ UNCHANGED << ethOn, streams, rtmpToHLS, pc, rtmpId, bal, result, jobs,
                    waitRes, seg, eofWrite, bcast >>

\* StreamDB.DeleteStream(s.broadcastRtmpToHLSMap[rtmpStrm.GetStreamID()])
EndDeleteHLS(h) ==
    /\ endpc[h] = "deleteHLS"
    /\ streams' = DeleteStream(streams, rtmpToHLS[rtmpId[h]])
    /\ endpc' = [endpc EXCEPT ![h] = "done"]
    /\ UNCHANGED << ethOn, rtmpToHLS, pc, rtmpId, bal, result, jobs, waitRes, seg,
                    eofWrite, bcast >>

PubNext ==
    \/ \E h \in Pubs : GotCheckBalance(h) /\ UNCHANGED notPub
    \/ \E h \in Pubs : GotCheckExists(h) /\ UNCHANGED notPub
    \/ \E h \in Pubs : GotAddStream(h) /\ UNCHANGED notPub
    \/ \E h \in Pubs : GotSpawn(h) /\ UNCHANGED notPub
    \/ \E h \in Pubs : GotStoreHLS(h) /\ UNCHANGED notPub
    \/ \E h \in Pubs : GotSetMap(h) /\ UNCHANGED notPub
    \/ \E h \in Pubs : GotJob1(h) /\ UNCHANGED notPub
    \/ \E h \in Pubs : GotWaitRound(h) /\ UNCHANGED notPub
    \/ \E h \in Pubs : GotJob2(h) /\ UNCHANGED notPub
    \/ \E h \in Pubs : SegmenterReturns(h) /\ UNCHANGED notPub
    \/ \E h \in Pubs : SegmenterWritesEOF(h) /\ UNCHANGED notPub
    \/ \E h \in Pubs : EndDeleteRTMP(h) /\ UNCHANGED notPub
    \/ \E h \in Pubs : EndDeleteHLS(h) /\ UNCHANGED notPub

\* ================================================== the subscribe side
\* ------------------------------------------- the StreamDB's HLS buffers
\* get_hls_buffer(id) -> buffer?
GetHLSBuffer(bufs, sid) == bufs[sid]

\* add_new_hls_buffer(id) -> buffer: binds a new, empty buffer to the id.
AddNewHLSBuffer(bufs, sid, b) == [bufs EXCEPT ![sid] = b]

EmptyBuffer == [n |-> 0, eof |-> FALSE]

\* write_segment: one insertion.
WriteSegment(o) == [o EXCEPT !.n = @ + 1]

\* write_eof()
WriteEOF(o) == [o EXCEPT !.eof = TRUE]

\* latest_playlist() -> Playlist | WAITING | EOF: EOF once write_eof was
\* called, WAITING while the buffer holds fewer segments than the window.
LatestPlaylist(o) ==
    IF o.eof THEN "ErrEOF"
    ELSE IF o.n < HLSBufferWindow THEN "waiting"
    ELSE "playlist"

\* LivepeerNode.UnsubscribeFromNetwork(sid): the subscriptions to the stream
\* are closed and its HLS buffer is reclaimed.
UnsubscribedSubs(subs, sids, sid) ==
    [r \in Reqs |-> IF sids[r] = sid /\ subs[r] = "active" THEN "closed"
                                                           ELSE subs[r]]

ReclaimedBuffers(bufs, sid) == [bufs EXCEPT ![sid] = Nil]

SubInit ==
    /\ now = 0
    /\ hlsBuffers = [i \in Sids |-> Nil]
    /\ bufObj = [b \in BufIds |-> EmptyBuffer]
    /\ nbufs = 0
    /\ hlsSubTimer = [i \in Sids |-> NoTime]
    /\ rpc = [r \in Reqs |-> "idle"]
    /\ rsid = [r \in Reqs |-> Nil]
    /\ rstart = [r \in Reqs |-> 0]
    /\ rres = [r \in Reqs |-> "none"]
    /\ cbBuf = [r \in Reqs |-> Nil]
    /\ sub = [r \in Reqs |-> "none"]
    /\ wpc = "sleep"
    /\ wake = UnsubFreq
    /\ wTodo = {}
    /\ wSid = Nil
    /\ fault = FALSE

workerVars == << wpc, wake, wTodo, wSid >>

\* The request returns res.
ReqReturn(r, res) ==
    /\ rpc' = [rpc EXCEPT ![r] = "done"]
    /\ rres' = [rres EXCEPT ![r] = res]

\* --------------------------------------- makeGetHLSMediaPlaylistHandler
\* strmID := parseStreamID(url.Path); a master playlist id returns nil;
\* buf := StreamDB.GetHLSBuffer(strmID)
ReqLookup(r) ==
    /\ ~fault
    /\ rpc[r] = "idle"
    /\ \E sid \in Sids, master \in BOOLEAN :
        /\ rsid' = [rsid EXCEPT ![r] = sid]
        /\ IF master
           THEN /\ ReqReturn(r, "nil")
                /\ UNCHANGED << cbBuf, rstart >>
           ELSE LET buf == GetHLSBuffer(hlsBuffers, sid)
                IN  /\ cbBuf' = [cbBuf EXCEPT ![r] = buf]
                    /\ IF buf = Nil
                       THEN /\ rpc' = [rpc EXCEPT ![r] = "subscribe"]
                            /\ UNCHANGED rstart
                       ELSE /\ rpc' = [rpc EXCEPT ![r] = "poll"]
                            /\ rstart' = [rstart EXCEPT ![r] = now]
                    /\ UNCHANGED rres
    /\ UNCHANGED << now, hlsBuffers, bufObj, nbufs, hlsSubTimer, sub, workerVars, fault >>

\* sub, err := VideoNetwork.GetSubscriber(strmID); sub.Subscribe(ctx, callback)
ReqSubscribe(r) ==
    /\ ~fault
    /\ rpc[r] = "subscribe"
    /\ \E err \in BOOLEAN :
        IF err
        THEN /\ ReqReturn(r, "err")
             /\ UNCHANGED << sub, rstart >>
        ELSE /\ sub' = [sub EXCEPT ![r] = "active"]
             /\ rpc' = [rpc EXCEPT ![r] = "poll"]
             /\ rstart' = [rstart EXCEPT ![r] = now]
             /\ UNCHANGED rres
    /\ UNCHANGED << now, hlsBuffers, bufObj, nbufs, hlsSubTimer, rsid, cbBuf,
                    workerVars, fault >>

\* A handler that records the activity on every return.
BumpsTimer_Always(res) == TRUE

\* Whether the request that ends with res records the stream's activity:
\* s.hlsSubTimer[strmID] = time.Now() stands on the path that returns the
\* playlist.
BumpsTimer(res) == res = "playlist"

\* One iteration of the wait loop, after the sleep of the one before:
\* for time.Since(start) < time.Second*10 { buf = GetHLSBuffer(strmID) ... }
ReqPoll(r) ==
    /\ ~fault
    /\ rpc[r] = "poll"
    /\ IF ~(now - rstart[r] < HLSWaitTime)
       THEN /\ ReqReturn(r, "ErrNotFound")
            /\ hlsSubTimer' =
                 IF BumpsTimer("ErrNotFound")
                 THEN [hlsSubTimer EXCEPT ![rsid[r]] = now] ELSE hlsSubTimer
            /\ UNCHANGED cbBuf
       ELSE LET buf == GetHLSBuffer(hlsBuffers, rsid[r])
                pl == IF buf = Nil THEN "waiting"
                                   ELSE LatestPlaylist(bufObj[buf])
            IN  /\ cbBuf' = [cbBuf EXCEPT ![r] = buf]
                /\ IF pl = "waiting"
                   THEN UNCHANGED << rpc, rres, hlsSubTimer >>
                   ELSE /\ ReqReturn(r, pl)
                        /\ hlsSubTimer' =
                             IF BumpsTimer(pl)
                             THEN [hlsSubTimer EXCEPT ![rsid[r]] = now]
                             ELSE hlsSubTimer
    /\ UNCHANGED << now, hlsBuffers, bufObj, nbufs, rsid, rstart, sub, workerVars, fault >>

\* ------------------------------------------- the subscriber callback
\* The network delivers a message to the subscription of r, which runs the
\* callback: func(seqNo uint64, data []byte, eof bool) { ... }
DeliverMsg(r, eof) ==
    /\ ~fault
    /\ sub[r] = "active"
    /\ IF eof /\ cbBuf[r] = Nil
       THEN \* buf.WriteEOF() on a nil buffer
            /\ fault' = TRUE
            /\ UNCHANGED << hlsBuffers, bufObj, nbufs, cbBuf, sub >>
       ELSE LET \* if eof { buf.WriteEOF(); sub.Unsubscribe() }
                obj1 == IF eof THEN [bufObj EXCEPT ![cbBuf[r]] = WriteEOF(@)]
                               ELSE bufObj
                \* if buf == nil { buf = StreamDB.AddNewHLSBuffer(strmID) }
                new == cbBuf[r] = Nil
                b == IF new THEN nbufs + 1 ELSE cbBuf[r]
            IN  /\ new => nbufs < MaxBufs
                /\ ~eof => (new \/ bufObj[b].n < MaxSegs)
                /\ sub' = [sub EXCEPT ![r] = IF eof THEN "closed" ELSE @]
                \* there is no return in the eof branch: the callback goes on
                /\ nbufs' = IF new THEN nbufs + 1 ELSE nbufs
                /\ hlsBuffers' =
                     IF new THEN AddNewHLSBuffer(hlsBuffers, rsid[r], b)
                            ELSE hlsBuffers
                /\ cbBuf' = [cbBuf EXCEPT ![r] = b]
                \* buf.WriteSegment(seg.SeqNo, seg.Name, ...)
                /\ bufObj' = [obj1 EXCEPT ![b] = WriteSegment(@)]
                /\ UNCHANGED fault
    /\ UNCHANGED << now, hlsSubTimer, rpc, rsid, rstart, rres, workerVars >>

Deliver(r) == \E eof \in BOOLEAN : DeliverMsg(r, eof)

\* ------------------------------------------- makeGetHLSSegmentHandler
\* A handler that does not look at the segment name.
GetHLSSegment_NameUnchecked(bufs, sid, master, nameOk, fetch) ==
    IF master THEN "nil"
    ELSE IF GetHLSBuffer(bufs, sid) = Nil THEN "ErrNotFound"
    ELSE fetch

\* master: strmID.IsMasterPlaylistID(); nameOk: parseSegName finds a
\* segment name; fetch: what buf.WaitAndPopSegment returns.
GetHLSSegment(bufs, sid, master, nameOk, fetch) ==
    IF master THEN "nil"
    ELSE IF GetHLSBuffer(bufs, sid) = Nil THEN "ErrNotFound"
    ELSE IF ~nameOk THEN "ErrNotFound"
    ELSE fetch

\* ------------------------------------------- startHlsUnsubscribeWorker
\* A worker that takes the difference the wrong way round: t.Sub(time.Now()).
Expired_Swapped(t) == t - now > IdleLimit

\* if time.Since(t) > limit
Expired(t) == now - t > IdleLimit

\* time.Sleep(freq) is over: the worker starts to range over s.hlsSubTimer.
WorkerWake ==
    /\ ~fault
    /\ wpc = "sleep"
    /\ now >= wake
    /\ wpc' = "scan"
    /\ wTodo' = {i \in Sids : hlsSubTimer[i] # NoTime}
    /\ UNCHANGED << now, hlsBuffers, bufObj, nbufs, hlsSubTimer, rpc, rsid,
                    rstart, rres, cbBuf, sub, wake, wSid, fault >>

\* The loop visits the next entry, or ends and the worker sleeps again.
WorkerScan ==
    /\ ~fault
    /\ wpc = "scan"
    /\ IF wTodo = {}
       THEN /\ wpc' = "sleep"
            /\ wake' = now + UnsubFreq
            /\ UNCHANGED << wTodo, wSid >>
       ELSE \E sid \in wTodo :
            /\ wTodo' = wTodo \ {sid}
            /\ UNCHANGED wake
            /\ IF hlsSubTimer[sid] # NoTime /\ Expired(hlsSubTimer[sid])
               THEN wpc' = "unsub" /\ wSid' = sid
               ELSE UNCHANGED << wpc, wSid >>
    /\ UNCHANGED << now, hlsBuffers, bufObj, nbufs, hlsSubTimer, rpc, rsid,
                    rstart, rres, cbBuf, sub, fault >>

\* s.LivepeerNode.UnsubscribeFromNetwork(sid)
WorkerUnsubscribe ==
    /\ ~fault
    /\ wpc = "unsub"
    /\ sub' = UnsubscribedSubs(sub, rsid, wSid)
    /\ hlsBuffers' = ReclaimedBuffers(hlsBuffers, wSid)
    /\ wpc' = "delete"
    /\ UNCHANGED << now, bufObj, nbufs, hlsSubTimer, rpc, rsid, rstart, rres,
                    cbBuf, wake, wTodo, wSid, fault >>

\* delete(s.hlsSubTimer, sid)
WorkerDelete ==
    /\ ~fault
    /\ wpc = "delete"
    /\ hlsSubTimer' = [hlsSubTimer EXCEPT ![wSid] = NoTime]
    /\ wpc' = "scan"
    /\ wSid' = Nil
    /\ UNCHANGED << now, hlsBuffers, bufObj, nbufs, rpc, rsid, rstart, rres,
                    cbBuf, sub, wake, wTodo, fault >>

\* Time passes.  The worker wakes when its sleep is over and its sweep
\* takes no time.
TickUpTo(limit) ==
    /\ ~fault
    /\ now < limit
    /\ wpc = "sleep"
    /\ now < wake
    /\ now' = now + 1
    /\ UNCHANGED << hlsBuffers, bufObj, nbufs, hlsSubTimer, rpc, rsid, rstart,
                    rres, cbBuf, sub, workerVars,
                    fault >>

Tick == TickUpTo(MaxTime)

SubNext ==
    \/ \E r \in Reqs : ReqLookup(r) /\ UNCHANGED notSub
    \/ \E r \in Reqs : ReqSubscribe(r) /\ UNCHANGED notSub
    \/ \E r \in Reqs : ReqPoll(r) /\ UNCHANGED notSub
    \/ \E r \in Reqs : Deliver(r) /\ UNCHANGED notSub
    \/ WorkerWake /\ UNCHANGED notSub
    \/ WorkerScan /\ UNCHANGED notSub
    \/ WorkerUnsubscribe /\ UNCHANGED notSub
    \/ WorkerDelete /\ UNCHANGED notSub
    \/ Tick /\ UNCHANGED notSub

\* ------------------------------------ requests stop, the worker goes on
\* Requests start their wait loop in the first StartBy ticks; the clock
\* runs on to MaxReapTime, long enough for the worker to meet every
\* hlsSubTimer entry after the idle limit.
StartsEarly == now <= StartBy

\* What a step of the worker and a step of time are known by: the worker
\* alone moves wpc and wTodo, time alone moves the clock.
WorkerSteps ==
    /\ ~fault
    /\ wpc # "sleep" \/ now >= wake
    /\ wpc' \in {"sleep", "scan", "unsub", "delete"}
    /\ wTodo' \in SUBSET Sids

ClockSteps ==
    /\ ~fault
    /\ now < MaxReapTime
    /\ wpc = "sleep"
    /\ now < wake
    /\ now' = now + 1

ReapNext ==
    \/ \E r \in Reqs : ReqLookup(r) /\ StartsEarly /\ UNCHANGED notSub
    \/ \E r \in Reqs : ReqSubscribe(r) /\ StartsEarly /\ UNCHANGED notSub
    \/ \E r \in Reqs : ReqPoll(r) /\ UNCHANGED notSub
    \/ \E r \in Reqs : Deliver(r) /\ UNCHANGED notSub
    \/ WorkerWake /\ UNCHANGED notSub
    \/ WorkerScan /\ UNCHANGED notSub
    \/ WorkerUnsubscribe /\ UNCHANGED notSub
    \/ WorkerDelete /\ UNCHANGED notSub
    \/ TickUpTo(MaxReapTime) /\ UNCHANGED notSub

\* ===================== the wait loop of the media-playlist handler
\* makeGetHLSMediaPlaylistHandler from start := time.Now() on, with the
\* clock in ticks of 100 ms.  The handler's steps take no time; its sleeps
\* last exactly as long as asked.
WaitInit ==
    /\ plNow = 0
    /\ plpc = "loop"
    /\ plWake = 0
    /\ plSlept = 0
    /\ plBuf = [has |-> FALSE, obj |-> EmptyBuffer]
    /\ plRes = "none"
    /\ plEnd = 0

\* A loop that still polls when the 10 seconds are just over.
LoopContinues_Inclusive(elapsed) == elapsed <= PollWait

\* for time.Since(start) < time.Second*10
LoopContinues(elapsed) == elapsed < PollWait

\* The handler returns res.
WaitReturn(res) ==
    /\ plpc' = "done"
    /\ plRes' = res
    /\ plEnd' = plNow
    /\ UNCHANGED << plWake, plSlept >>

\* time.Sleep(d); continue
WaitSleep(d) ==
    /\ plpc' = "sleep"
    /\ plWake' = plNow + d
    /\ plSlept' = d
    /\ UNCHANGED << plRes, plEnd >>

\* The loop condition and, if it holds, one iteration of the loop body.
WaitLoop ==
    /\ plpc = "loop"
    /\ IF ~LoopContinues(plNow)
       THEN WaitReturn("ErrNotFound")
       ELSE IF ~plBuf.has
       THEN \* buf == nil
            WaitSleep(NilBufSleep)
       ELSE LET pl == LatestPlaylist(plBuf.obj)
            IN  IF pl = "waiting" THEN WaitSleep(PlaylistSleep)
                                  ELSE WaitReturn(pl)
    /\ UNCHANGED << plNow, plBuf >>

\* The sleep is over: continue
WaitWake ==
    /\ plpc = "sleep"
    /\ plNow = plWake
    /\ plpc' = "loop"
    /\ UNCHANGED << plNow, plWake, plSlept, plBuf, plRes, plEnd >>

\* The subscriber callback inserts a segment; its first insertion creates
\* the buffer in the StreamDB.
WaitSegment ==
    /\ plBuf.obj.n < MaxSegs
    /\ plBuf' = [has |-> TRUE, obj |-> WriteSegment(plBuf.obj)]
    /\ UNCHANGED << plNow, plpc, plWake, plSlept, plRes, plEnd >>

\* The subscriber callback writes EOF to the buffer.
WaitEOF ==
    /\ plBuf.has
    /\ ~plBuf.obj.eof
    /\ plBuf' = [plBuf EXCEPT !.obj = WriteEOF(@)]
    /\ UNCHANGED << plNow, plpc, plWake, plSlept, plRes, plEnd >>

\* 100 ms pass, while the handler sleeps or after it returned.
WaitTick ==
    /\ plNow < MaxWaitTicks
    /\ \/ plpc = "done"
       \/ plpc = "sleep" /\ plNow < plWake
    /\ plNow' = plNow + 1
    /\ UNCHANGED << plpc, plWake, plSlept, plBuf, plRes, plEnd >>

WaitNext ==
    \/ WaitLoop /\ UNCHANGED notWait
    \/ WaitWake /\ UNCHANGED notWait
    \/ WaitSegment /\ UNCHANGED notWait
    \/ WaitEOF /\ UNCHANGED notWait
    \/ WaitTick /\ UNCHANGED notWait

\* ============================================== the segment handler
\* What buf.WaitAndPopSegment(ctx, segName) may return.
FetchResults == {"data", "fetchErr"}

NoSegReq == [sid |-> Nil, master |-> FALSE, nameOk |-> FALSE, fetch |-> "none"]

SegInit ==
    /\ segReq = NoSegReq
    /\ segRes = "none"

\* The states of the StreamDB's HLS buffers, the subscriptions and
\* s.hlsSubTimer in which a segment request may find the node: nbufs
\* buffers were created, each by a first segment; a stream id is bound to
\* one of them or, before the first delivery and after the idle worker
\* reclaimed it, to none; a timer entry is a time in the past.
SegSubStates ==
    /\ now = MaxTime
    /\ nbufs \in 0 .. MaxBufs
    /\ hlsBuffers \in [Sids -> {Nil} \cup (1 .. nbufs)]
    /\ bufObj \in [BufIds -> [n : 0 .. MaxSegs, eof : BOOLEAN]]
    /\ \A b \in BufIds : IF b <= nbufs THEN bufObj[b].n >= 1
                                      ELSE bufObj[b] = EmptyBuffer
    /\ hlsSubTimer \in [Sids -> {NoTime} \cup (0 .. now)]
    /\ rpc = [r \in Reqs |-> "idle"]
    /\ rsid = [r \in Reqs |-> Nil]
    /\ rstart = [r \in Reqs |-> 0]
    /\ rres = [r \in Reqs |-> "none"]
    /\ cbBuf = [r \in Reqs |-> Nil]
    /\ sub \in [Reqs -> {"none", "active"}]
    /\ wpc = "sleep"
    /\ wake = now + UnsubFreq
    /\ wTodo = {}
    /\ wSid = Nil
    /\ fault = FALSE

\* The handler of one segment request, from parseStreamID to its return.
SegmentRequest ==
    \E sid \in Sids, master \in BOOLEAN, nameOk \in BOOLEAN,
       fetch \in FetchResults :
        /\ segReq' = [sid |-> sid, master |-> master, nameOk |-> nameOk,
                      fetch |-> fetch]
        /\ segRes' = GetHLSSegment(hlsBuffers, sid, master, nameOk, fetch)

SegNext ==
    \/ SegmentRequest /\ UNCHANGED notSeg

\* ====================================== telemetry (src/monitor/census.go)
\* Time is counted in units of 500 ms; the clock advances by CenTick.
Nonces == 1 .. NumNonces
SeqNos == 0 .. NumSeqNos - 1

\* The error codes a transcode result may carry ("": none).
ErrCodes == {"", "SessionEnded", "Transcode"}

\* segmentCount{}
ZeroSegment ==
    [seqNo |-> 0, emergedTime |-> ZeroTime, emerged |-> 0, transcoded |-> 0,
     failed |-> FALSE]

\* No entry for a seqNo in the tries of an averager.
NoTry == [tries |-> 0, first |-> ZeroTime]

\* No entry for the nonce in cen.success.
NoAverager ==
    [present |-> FALSE, segments |-> [i \in 0 .. RingSize - 1 |-> ZeroSegment],
     start |-> 0, end |-> -1, removed |-> FALSE, removedAt |-> ZeroTime,
     tries |-> [q \in SeqNos |-> NoTry]]

\* &segmentsAverager{segments: make([]segmentCount, n), end: -1}
newAverager == [NoAverager EXCEPT !.present = TRUE]

\* No map for the nonce in cen.emergeTimes.
NoEmergeTimes == [has |-> FALSE, at |-> [q \in SeqNos |-> NoCenTime]]

\* Rational numbers, for the float64 rates.
RECURSIVE GCD(_, _)
GCD(a, b) == IF b = 0 THEN a ELSE GCD(b, a % b)

Rat(n, d) == LET g == GCD(n, d) IN [num |-> n \div g, den |-> d \div g]

RatAdd(x, y) == Rat(x.num * y.den + y.num * x.den, x.den * y.den)

RatOne == Rat(1, 1)

\* func (sa *segmentsAverager) advance(i int) int
advance(i) == IF i + 1 = RingSize THEN 0 ELSE i + 1

\* The indices the loops over an averager visit:
\* i := sa.start; for { ...; if i == sa.end { break }; i = sa.advance(i) }
RECURSIVE Walk(_, _)
Walk(sa, i) == IF i = sa.end THEN << i >> ELSE << i >> \o Walk(sa, advance(i))

\* An averager that counts every entry, whatever its state.
Qualifies_Always(item, t) == TRUE

\* if item.transcoded > 0 || item.failed ||
\*    now.Sub(item.emergedTime) > timeToWaitForError
Qualifies(item, t) ==
    \/ item.transcoded > 0
    \/ item.failed
    \/ t - item.emergedTime > TimeToWaitForError

\* The sums emerged and transcoded of successRate, over the indices idx.
RECURSIVE Counted(_, _, _)
Counted(sa, idx, t) ==
    IF idx = << >> THEN [emerged |-> 0, transcoded |-> 0]
    ELSE LET item == sa.segments[Head(idx)]
             rest == Counted(sa, Tail(idx), t)
         IN  IF Qualifies(item, t)
             THEN [emerged |-> rest.emerged + item.emerged,
                   transcoded |-> rest.transcoded + item.transcoded]
             ELSE rest

\* func (sa *segmentsAverager) successRate() (float64, bool)
saSuccessRate(sa, t) ==
    IF sa.end = -1 THEN [rate |-> RatOne, has |-> FALSE]
    ELSE LET c == Counted(sa, Walk(sa, sa.start), t)
         IN  IF c.emerged > 0
             THEN [rate |-> Rat(c.transcoded, c.emerged), has |-> TRUE]
             ELSE [rate |-> RatOne, has |-> FALSE]

\* The sum f of the rates of the averagers of ns that have one.
RECURSIVE RateSum(_, _, _)
RateSum(succ, ns, t) ==
    IF ns = {} THEN Rat(0, 1)
    ELSE LET n == CHOOSE m \in ns : TRUE
             r == saSuccessRate(succ[n], t)
             rest == RateSum(succ, ns \ {n}, t)
         IN  IF succ[n].present /\ r.has THEN RatAdd(rest, r.rate) ELSE rest

\* func (cen *censusMetricsCounter) successRate() float64
successRate(succ, t) ==
    LET with == {n \in Nonces : succ[n].present /\ saSuccessRate(succ[n], t).has}
        f == RateSum(succ, Nonces, t)
    IN  IF with # {} THEN Rat(f.num, f.den * Cardinality(with)) ELSE RatOne

\* func (sa *segmentsAverager) getAddItem(seqNo uint64) (*segmentCount, bool):
\* the averager after the call, the index of the item and whether it was
\* found.
getAddItem(sa, seqNo) ==
    IF sa.end = -1
    THEN [sa |-> [sa EXCEPT !.end = 0], index |-> 0, found |-> FALSE]
    ELSE LET idx == Walk(sa, sa.start)
             hits == {k \in 1 .. Len(idx) : sa.segments[idx[k]].seqNo = seqNo}
         IN  IF hits # {}
             THEN [sa |-> sa,
                   index |-> idx[CHOOSE k \in hits : \A j \in hits : k <= j],
                   found |-> TRUE]
             ELSE LET e == advance(sa.end)
                  IN  [sa |-> [sa EXCEPT !.end = e,
                                         !.start = IF e = sa.start
                                                   THEN advance(sa.start) ELSE @],
                       index |-> e, found |-> FALSE]

\* func (sa *segmentsAverager) addEmerged(seqNo uint64)
addEmerged(sa, seqNo, t) ==
    LET g == getAddItem(sa, seqNo)
    IN  [g.sa EXCEPT !.segments[g.index] =
            [@ EXCEPT !.emerged = 1, !.transcoded = 0, !.emergedTime = t,
                      !.seqNo = seqNo]]

\* func (sa *segmentsAverager) addTranscoded(seqNo uint64, failed bool)
addTranscoded(sa, seqNo, failed, t) ==
    LET g == getAddItem(sa, seqNo)
        item0 == g.sa.segments[g.index]
        item1 == IF g.found THEN item0
                 ELSE [item0 EXCEPT !.emerged = 0, !.emergedTime = t]
        item2 == [item1 EXCEPT !.failed = failed,
                               !.transcoded = IF failed THEN @ ELSE 1,
                               !.seqNo = seqNo]
    IN  [g.sa EXCEPT !.segments[g.index] = item2]

\* An averager that can always be removed.
canBeRemoved_Always(sa, t) == TRUE

\* func (sa *segmentsAverager) canBeRemoved() bool
canBeRemoved(sa, t) ==
    \/ sa.end = -1
    \/ LET idx == Walk(sa, sa.start)
       IN  \A k \in 1 .. Len(idx) :
             LET item == sa.segments[idx[k]]
             IN  ~(/\ item.transcoded = 0
                   /\ ~item.failed
                   /\ t - item.emergedTime <= TimeToWaitForError)

\* func (cen *censusMetricsCounter) countSegmentTranscoded(nonce, seqNo, failed)
countSegmentTranscoded(succ, nonce, seqNo, failed, t) ==
    IF succ[nonce].present
    THEN [succ EXCEPT ![nonce] = addTranscoded(@, seqNo, failed, t)]
    ELSE succ

\* func (cen *censusMetricsCounter) countSegmentEmerged(nonce, seqNo uint64)
countSegmentEmerged(et, nonce, seqNo) ==
    IF et[nonce].has /\ et[nonce].at[seqNo] # NoCenTime
    THEN [et EXCEPT ![nonce].at[seqNo] = NoCenTime]
    ELSE et

\* InitCensus
CenInit ==
    /\ cenNow = 0
    /\ success = [n \in Nonces |-> NoAverager]
    /\ emergeTimes = [n \in Nonces |-> NoEmergeTimes]
    /\ mSuccessRate = RatOne
    /\ watcherWake = 0
    /\ cenEvents = 0

\* func (cen *censusMetricsCounter) sendSuccess(), on the state succ
sendSuccess(succ) == mSuccessRate' = successRate(succ, cenNow)

\* func (cen *censusMetricsCounter) streamCreated(nonce uint64)
streamCreated(nonce) ==
    /\ success' = [success EXCEPT ![nonce] = newAverager]
    /\ UNCHANGED << cenNow, emergeTimes, mSuccessRate, watcherWake >>

\* func (cen *censusMetricsCounter) streamEnded(nonce uint64)
streamEnded(nonce) ==
    /\ emergeTimes' = [emergeTimes EXCEPT ![nonce] = NoEmergeTimes]
    /\ success' =
         IF success[nonce].present
         THEN IF canBeRemoved(success[nonce], cenNow)
              THEN [success EXCEPT ![nonce] = NoAverager]
              ELSE [success EXCEPT ![nonce].removed = TRUE,
                                   ![nonce].removedAt = cenNow]
         ELSE success
    /\ sendSuccess(success')
    /\ UNCHANGED << cenNow, watcherWake >>

\* func (cen *censusMetricsCounter) segmentEmerged(nonce, seqNo uint64, ...)
segmentEmerged(nonce, seqNo) ==
    /\ success' =
         IF success[nonce].present
         THEN [success EXCEPT ![nonce] = addEmerged(@, seqNo, cenNow)]
         ELSE success
    /\ emergeTimes' = [emergeTimes EXCEPT ![nonce].has = TRUE,
                                          ![nonce].at[seqNo] = cenNow]
    /\ UNCHANGED << cenNow, mSuccessRate, watcherWake >>

\* func SegmentFullyTranscoded(nonce, seqNo uint64, ..., errCode)
SegmentFullyTranscoded(nonce, seqNo, errCode) ==
    LET failed == errCode # "" /\ errCode # "SessionEnded"
    IN  /\ emergeTimes' = countSegmentEmerged(emergeTimes, nonce, seqNo)
        /\ success' = countSegmentTranscoded(success, nonce, seqNo, failed,
                                             cenNow)
        /\ sendSuccess(success')
        /\ UNCHANGED << cenNow, watcherWake >>

\* func (cen *censusMetricsCounter) segmentUploadFailed(nonce, seqNo, code,
\* permanent)
segmentUploadFailed(nonce, seqNo, permanent) ==
    /\ IF permanent
       THEN /\ emergeTimes' = countSegmentEmerged(emergeTimes, nonce, seqNo)
            /\ success' = countSegmentTranscoded(success, nonce, seqNo, TRUE,
                                                 cenNow)
            /\ sendSuccess(success')
       ELSE UNCHANGED << emergeTimes, success, mSuccessRate >>
    /\ UNCHANGED << cenNow, watcherWake >>

\* func (cen *censusMetricsCounter) segmentTranscodeFailed(nonce, seqNo, code,
\* permanent)
segmentTranscodeFailed(nonce, seqNo, code, permanent) ==
    /\ IF permanent
       THEN /\ emergeTimes' = countSegmentEmerged(emergeTimes, nonce, seqNo)
            /\ success' = countSegmentTranscoded(success, nonce, seqNo,
                                                 code # "SessionEnded", cenNow)
            /\ sendSuccess(success')
       ELSE UNCHANGED << emergeTimes, success, mSuccessRate >>
    /\ UNCHANGED << cenNow, watcherWake >>

\* A watcher that waits twice as long for a segment.
IsLost_TwiceAsLong(tm, t) == t - tm > 2 * TimeToWaitForError

\* ago := now.Sub(tm); if ago > timeToWaitForError
IsLost(tm, t) == t - tm > TimeToWaitForError

\* One sweep of func (cen *censusMetricsCounter) timeoutWatcher(ctx), under
\* cen.lock, and the start of its sleep.
timeoutWatcher ==
    /\ cenNow >= watcherWake
    /\ emergeTimes' =
         [n \in Nonces |->
            [emergeTimes[n] EXCEPT !.at =
               [q \in SeqNos |->
                  IF /\ emergeTimes[n].at[q] # NoCenTime
                     /\ IsLost(emergeTimes[n].at[q], cenNow)
                  THEN NoCenTime ELSE emergeTimes[n].at[q]]]]
    /\ sendSuccess(success)
    /\ success' =
         [n \in Nonces |->
            IF /\ success[n].present
               /\ success[n].removed
               /\ cenNow - success[n].removedAt > 2 * TimeToWaitForError
            THEN NoAverager
            ELSE IF success[n].present
            THEN [success[n] EXCEPT !.tries =
                    [q \in SeqNos |->
                       IF /\ success[n].tries[q].tries > 0
                          /\ cenNow - success[n].tries[q].first
                               > 2 * TimeToWaitForError
                       THEN NoTry ELSE success[n].tries[q]]]
            ELSE success[n]]
    /\ watcherWake' = cenNow + TimeoutWatcherPause
    /\ UNCHANGED cenNow

\* Time passes up to limit, unless a sweep of the watcher is due.
CenTime(limit) ==
    /\ cenNow + CenTick <= limit
    /\ cenNow < watcherWake
    /\ cenNow' = cenNow + CenTick
    /\ UNCHANGED << success, emergeTimes, mSuccessRate, watcherWake >>

\* One more of the MaxCenEvents telemetry events that are followed.
Reported ==
    /\ cenEvents < MaxCenEvents
    /\ cenEvents' = cenEvents + 1
    /\ UNCHANGED notCen

\* A step of the watcher or of the clock.
Passed == UNCHANGED << cenEvents, notCen >>

\* The telemetry events of the sessions ns and the watcher, with a clock
\* that stops at limit.
CenStep(ns, limit) ==
    \/ \E n \in ns : streamCreated(n) /\ Reported
    \/ \E n \in ns : streamEnded(n) /\ Reported
    \/ \E n \in ns, q \in SeqNos : segmentEmerged(n, q) /\ Reported
    \/ \E n \in ns, q \in SeqNos, e \in ErrCodes :
         SegmentFullyTranscoded(n, q, e) /\ Reported
    \/ \E n \in ns, q \in SeqNos, p \in BOOLEAN :
         segmentUploadFailed(n, q, p) /\ Reported
    \/ \E n \in ns, q \in SeqNos, e \in ErrCodes \ {""}, p \in BOOLEAN :
         segmentTranscodeFailed(n, q, e, p) /\ Reported
    \/ timeoutWatcher /\ Passed
    \/ CenTime(limit) /\ Passed

\* All sessions, over a short time.
CenNext == CenStep(Nonces, MaxRateTime)

\* One session, over a time long enough for the watcher to delete it.
WatchNext == CenStep({1}, MaxCenTime)

\* ------------------------------------------------------ the moving averages
\* The values of the samples.
SampleValues == {1, 3, 5}

\* The zero timeValue, which fills a fresh ring array.
NoSample == [time |-> ZeroTime, value |-> 0]

newRingArray(size) ==
    [data |-> [i \in 1 .. size |-> NoSample], head |-> -1, tail |-> -1]

newMovingAverage(windowSize, dataSize) ==
    [windowSize |-> windowSize, data |-> newRingArray(dataSize)]

\* ra.data[i], the slices of Go being indexed from 0.
At(ra, i) == ra.data[i + 1]

hasData(ra) == ra.head # -1 /\ ra.tail # -1

getTail(ra) == IF ra.tail # -1 THEN At(ra, ra.tail) ELSE NoSample

\* The ring after pop(); on an empty ring nothing changes.
pop(ra) ==
    IF ra.tail = -1 THEN ra
    ELSE IF ra.tail = ra.head THEN [ra EXCEPT !.tail = -1, !.head = -1]
    ELSE [ra EXCEPT !.tail = IF ra.tail + 1 >= Len(ra.data)
                              THEN 0 ELSE ra.tail + 1]

\* The condition under which push() doubles the array.
IsFull(ra) ==
    \/ ra.head + 1 = ra.tail
    \/ ra.head + 1 = Len(ra.data) /\ ra.tail = 0

\* The ring after the doubling in push(): two copy() calls into a new array
\* of twice the size.
Grow(ra) ==
    LET len == Len(ra.data)
        copied == IF ra.tail < ra.head
                  THEN SubSeq(ra.data, ra.tail + 1, ra.head + 1)
                  ELSE SubSeq(ra.data, ra.tail + 1, len)
                         \o SubSeq(ra.data, 1, ra.head + 1)
    IN  [data |-> [i \in 1 .. 2 * len |->
                     IF i <= Len(copied) THEN copied[i] ELSE NoSample],
         head |-> IF ra.tail < ra.head THEN ra.head - ra.tail
                  ELSE len - ra.tail + ra.head,
         tail |-> 0]

\* The ring after push(time, value).
push(ra, s) ==
    IF ra.head = -1 /\ ra.tail = -1
    THEN [ra EXCEPT !.head = 0, !.tail = 0, !.data[1] = s]
    ELSE LET g == IF IsFull(ra) THEN Grow(ra) ELSE ra
             h == IF g.head + 1 = Len(g.data) THEN 0 ELSE g.head + 1
         IN  [g EXCEPT !.head = h, !.data[h + 1] = s]

\* The loop of average(): from slot i on, up to and including the head.
RECURSIVE RingAcc(_, _)
RingAcc(ra, i) ==
    LET j == IF i + 1 = Len(ra.data) THEN 0 ELSE i + 1
    IN  IF j = ra.head
        THEN [acc |-> At(ra, i).value + At(ra, j).value, num |-> 2]
        ELSE LET r == RingAcc(ra, j)
             IN  [acc |-> At(ra, i).value + r.acc, num |-> r.num + 1]

average(ra) ==
    IF ~hasData(ra) THEN Rat(0, 1)
    ELSE IF ra.head = ra.tail THEN Rat(At(ra, ra.head).value, 1)
    ELSE LET r == RingAcc(ra, ra.tail) IN Rat(r.acc, r.num)

\* The first loop of addSample: the tail is popped while it is windowSize
\* old or older.
RECURSIVE DropOld(_, _, _)
DropOld(ra, t, windowSize) ==
    IF hasData(ra) /\ t - getTail(ra).time >= windowSize
    THEN DropOld(pop(ra), t, windowSize)
    ELSE ra

\* The moving average after addSample(now, val).
addSample(m, t, val) ==
    [m EXCEPT !.data = push(DropOld(m.data, t, m.windowSize),
                            [time |-> t, value |-> val])]

AvgInit ==
    /\ avgNow = 0
    /\ ma = newMovingAverage(WindowSize, DataSize)
    /\ samples = << >>
    /\ avgRes = Rat(0, 1)

\* A sample arrives dt after the last one.
AddSample ==
    \E dt \in 0 .. MaxGap, val \in SampleValues :
        /\ Len(samples) < MaxSamples
        /\ avgNow' = avgNow + dt
        /\ ma' = addSample(ma, avgNow + dt, val)
        /\ avgRes' = average(ma'.data)
        /\ samples' = Append(samples, [time |-> avgNow + dt, value |-> val])
        /\ UNCHANGED notAvg

AvgNext == AddSample

\* ------------------------------------------------------- a ring array
\* A ringArray of any capacity, with push, pop and average called in any
\* order.
RingValues == {1, 3}

\* The samples of ra from its tail to its head, as average() walks them.
RECURSIVE Live(_, _)
Live(ra, i) ==
    IF i = ra.head THEN << At(ra, i) >>
    ELSE << At(ra, i) >> \o Live(ra, IF i + 1 = Len(ra.data) THEN 0 ELSE i + 1)

\* What a ring array holds.
Held(ra) == IF hasData(ra) THEN Live(ra, ra.tail) ELSE << >>

RingInitWith(size) ==
    /\ ring = newRingArray(size)
    /\ fifo = << >>
    /\ ringOut = [op |-> "none", time |-> ZeroTime, value |-> Rat(0, 1),
                  before |-> newRingArray(size), held |-> 0]
    /\ ringOps = 0

RingInit == RingInitWith(DataSize)

RingSizes == \E size \in 1 .. MaxCap : RingInitWith(size)

\* ra.push(time, value), the time being the number of the call.
RingPush ==
    \E v \in RingValues :
        /\ ringOps < MaxRingOps
        /\ ring' = push(ring, [time |-> ringOps, value |-> v])
        /\ fifo' = Append(fifo, [time |-> ringOps, value |-> v])
        /\ ringOut' = [op |-> "push", time |-> ringOps, value |-> Rat(v, 1),
                       before |-> ring, held |-> Len(fifo)]
        /\ ringOps' = ringOps + 1
        /\ UNCHANGED notRing

\* ra.pop()
RingPop ==
    /\ ringOps < MaxRingOps
    /\ ring' = pop(ring)
    /\ fifo' = IF fifo = << >> THEN fifo ELSE Tail(fifo)
    /\ ringOut' = [op |-> "pop", time |-> getTail(ring).time,
                   value |-> Rat(getTail(ring).value, 1), before |-> ring,
                   held |-> Len(fifo)]
    /\ ringOps' = ringOps + 1
    /\ UNCHANGED notRing

\* ra.average()
RingAverage ==
    /\ ringOps < MaxRingOps
    /\ ringOut.op # "average"
    /\ ringOut' = [op |-> "average", time |-> ZeroTime,
                   value |-> average(ring), before |-> ring,
                   held |-> Len(fifo)]
    /\ ringOps' = ringOps + 1
    /\ UNCHANGED << ring, fifo, notRing >>

RingNext == RingPush \/ RingPop \/ RingAverage

\* ------------------------------------------------ orchestrator discovery
Orchs == 1 .. NumOrchs

\* server.BroadcastCfg.MaxPrice(): nil, or a price per pixel.
MaxPrices ==
    {[has |-> FALSE, num |-> 0, den |-> 1], [has |-> TRUE, num |-> 3, den |-> 2]}

\* What an orchestrator may reply to the info RPC: whether its ticket
\* parameters pass ValidateTicketParams, and its PriceInfo.
Infos == [tpValid : BOOLEAN, price : {1, 2}, pixels : {0, 1, 2}]

\* The RPC failed or timed out.
NoInfo == [tpValid |-> FALSE, price |-> 0, pixels |-> 0]

\* common.PriceToFixed: the fixed-point value of a price per pixel.
FixedScale == 1000
PriceToFixed(num, den) == (num * FixedScale) \div den

\* store.SelectOrchs with a MaxPrice filter: the records whose price does
\* not exceed it.
SelectOrchs(db, maxPrice) ==
    {o \in Orchs :
        maxPrice.has => db[o] <= PriceToFixed(maxPrice.num, maxPrice.den)}

\* What the select returns of the store db: the records with their prices.
Selected(db, maxPrice) ==
    {[orch |-> o, price |-> db[o]] : o \in SelectOrchs(db, maxPrice)}

\* getURLs: nil when the select fails or returns no record.
getURLs(db, maxPrice, selErr) ==
    IF selErr THEN {} ELSE SelectOrchs(db, maxPrice)

\* The predicate of GetOrchestrators, without the price check.
pred_NoPriceCheck(info, maxPrice) == info.tpValid

\* The predicate of GetOrchestrators.
pred(info, maxPrice) ==
    /\ info.tpValid
    /\ maxPrice.has =>
         info.price * maxPrice.den <= maxPrice.num * info.pixels

\* big.NewRat panics on a zero denominator.
predPanics(info, maxPrice) ==
    info.tpValid /\ maxPrice.has /\ info.pixels = 0

NoPoolRead ==
    [max |-> CHOOSE m \in MaxPrices : ~m.has, seen |-> {}, last |-> {},
     prev |-> {}, done |-> FALSE]

NoGoRes ==
    [status |-> "none", n |-> 0, max |-> CHOOSE m \in MaxPrices : ~m.has,
     selErr |-> FALSE, uris |-> {}, rpcs |-> 0, infos |-> {}]

\* The poller is idle and the store is db.
DiscInitWith(db) ==
    /\ dbPrice = db
    /\ cpc = "idle"
    /\ wk = [o \in Orchs |-> "none"]
    /\ wkPrice = [o \in Orchs |-> 0]
    /\ recvd = 0
    /\ ctxDone = FALSE
    /\ cycles = 0
    /\ leaked = 0
    /\ lastDone = db
    /\ prevDone = db
    /\ poolRead = NoPoolRead
    /\ goRes = NoGoRes
    /\ discFault = FALSE
    /\ rpcOk = [o \in Orchs |-> FALSE]
    /\ stored = [o \in Orchs |-> FALSE]

\* cacheTranscoderPool has filled the store from the chain; no price is
\* known yet.
DiscInit == DiscInitWith([o \in Orchs |-> 0])

\* The stores the refresh cycles can leave.
StorePrices ==
    {0} \cup {PriceToFixed(i.price, i.pixels) : i \in {j \in Infos : j.pixels > 0}}

DiscStores == \E db \in [Orchs -> StorePrices] : DiscInitWith(db)

\* cacheDBOrchs up to its receive loop: the select, and one getOrchInfo
\* goroutine for each record.  A failing select ends the cycle with an
\* error.
CacheStart ==
    /\ ~discFault
    /\ cpc = "idle"
    /\ cycles < MaxCycles
    /\ \E selErr \in BOOLEAN :
         IF selErr
         THEN /\ cycles' = cycles + 1
              /\ UNCHANGED << cpc, wk, recvd, ctxDone, rpcOk, stored >>
         ELSE /\ cpc' = "recv"
              /\ wk' = [o \in Orchs |-> "run"]
              /\ recvd' = 0
              /\ ctxDone' = FALSE
              /\ rpcOk' = [o \in Orchs |-> FALSE]
              /\ stored' = [o \in Orchs |-> FALSE]
              /\ UNCHANGED cycles
    /\ UNCHANGED << dbPrice, wkPrice, leaked, lastDone, prevDone, poolRead,
                    goRes, discFault, notDisc >>

\* getOrchInfo: the URI does not parse or the RPC fails (an error for
\* errc), or the orchestrator replies before the context of the cycle is
\* done and its price is converted (a record for resc).
getOrchInfo(o) ==
    /\ ~discFault
    /\ wk[o] = "run"
    /\ \/ /\ wk' = [wk EXCEPT ![o] = "sendErr"]
          /\ UNCHANGED << wkPrice, discFault, rpcOk >>
       \/ /\ ~ctxDone
          /\ \E info \in Infos :
               IF info.pixels = 0
               THEN /\ discFault' = TRUE
                    /\ UNCHANGED << wk, wkPrice, rpcOk >>
               ELSE /\ wk' = [wk EXCEPT ![o] = "sendRes"]
                    /\ wkPrice' =
                         [wkPrice EXCEPT
                            ![o] = PriceToFixed(info.price, info.pixels)]
                    /\ rpcOk' = [rpcOk EXCEPT ![o] = TRUE]
                    /\ UNCHANGED discFault
    /\ UNCHANGED << dbPrice, cpc, recvd, ctxDone, cycles, leaked, lastDone,
                    prevDone, poolRead, goRes, stored, notDisc >>

\* case res := <-resc: the record is written to the store, unless
\* UpdateOrch fails.
RecvRes(o) ==
    /\ ~discFault
    /\ cpc = "recv" /\ recvd < NumOrchs
    /\ wk[o] = "sendRes"
    /\ \E updateOk \in BOOLEAN :
         /\ dbPrice' = IF updateOk THEN [dbPrice EXCEPT ![o] = wkPrice[o]]
                       ELSE dbPrice
         /\ stored' = [stored EXCEPT ![o] = updateOk]
    /\ wk' = [wk EXCEPT ![o] = "done"]
    /\ recvd' = recvd + 1
    /\ UNCHANGED << cpc, wkPrice, ctxDone, cycles, leaked, lastDone, prevDone,
                    poolRead, goRes, discFault, rpcOk, notDisc >>

\* case err := <-errc
RecvErr(o) ==
    /\ ~discFault
    /\ cpc = "recv" /\ recvd < NumOrchs
    /\ wk[o] = "sendErr"
    /\ wk' = [wk EXCEPT ![o] = "done"]
    /\ recvd' = recvd + 1
    /\ UNCHANGED << dbPrice, cpc, wkPrice, ctxDone, cycles, leaked, lastDone,
                    prevDone, poolRead, goRes, discFault, rpcOk, stored,
                    notDisc >>

\* The timeout of the cycle's context expires.
CtxTimeout ==
    /\ ~discFault
    /\ cpc = "recv" /\ ~ctxDone
    /\ ctxDone' = TRUE
    /\ UNCHANGED << dbPrice, cpc, wk, wkPrice, recvd, cycles, leaked, lastDone,
                    prevDone, poolRead, goRes, discFault, rpcOk, stored,
                    notDisc >>

\* case <-ctx.Done(): the break leaves the select, and the loop goes on
\* with the next i.
RecvCtxDone ==
    /\ ~discFault
    /\ cpc = "recv" /\ recvd < NumOrchs
    /\ ctxDone
    /\ recvd' = recvd + 1
    /\ UNCHANGED << dbPrice, cpc, wk, wkPrice, ctxDone, cycles, leaked,
                    lastDone, prevDone, poolRead, goRes, discFault, rpcOk,
                    stored, notDisc >>

\* The receive loop is over and cacheDBOrchs returns; the deferred cancel
\* runs.  A goroutine that has not delivered finds no receiver any more.
CacheReturn ==
    /\ ~discFault
    /\ cpc = "recv" /\ recvd = NumOrchs
    /\ cpc' = "idle"
    /\ cycles' = cycles + 1
    /\ leaked' = leaked + Cardinality({o \in Orchs : wk[o] # "done"})
    /\ wk' = [o \in Orchs |-> "none"]
    /\ ctxDone' = TRUE
    /\ prevDone' = lastDone
    /\ lastDone' = dbPrice
    /\ UNCHANGED << dbPrice, wkPrice, recvd, poolRead, goRes, discFault, rpcOk,
                    stored, notDisc >>

\* The select behind GetURLs, GetOrchestrators and Size.
ReadPool ==
    /\ ~discFault
    /\ \E maxPrice \in MaxPrices :
         poolRead' = [max |-> maxPrice, seen |-> Selected(dbPrice, maxPrice),
                      last |-> Selected(lastDone, maxPrice),
                      prev |-> Selected(prevDone, maxPrice), done |-> TRUE]
    /\ UNCHANGED << dbPrice, cpc, wk, wkPrice, recvd, ctxDone, cycles, leaked,
                    lastDone, prevDone, goRes, discFault, rpcOk, stored,
                    notDisc >>

\* GetOrchestrators(n).  The pool sends the info RPC to each of the URIs;
\* replies[o] is what o replies (NoInfo: nothing in time).  It returns at
\* most n of the replies that satisfy the predicate.
GetOrchestrators ==
    /\ ~discFault
    /\ \E n \in 0 .. NumOrchs, maxPrice \in MaxPrices, selErr \in BOOLEAN :
         LET uris == getURLs(dbPrice, maxPrice, selErr)
             call == [status |-> "nil", n |-> n, max |-> maxPrice,
                      selErr |-> selErr, uris |-> uris, rpcs |-> 0,
                      infos |-> {}]
         IN  IF uris = {}
             THEN goRes' = call /\ UNCHANGED discFault
             ELSE \E replies \in [uris -> Infos \cup {NoInfo}] :
                    LET replied == {o \in uris : replies[o] # NoInfo}
                        passed == {o \in replied : pred(replies[o], maxPrice)}
                    IN  IF \E o \in replied : predPanics(replies[o], maxPrice)
                        THEN /\ goRes' = [call EXCEPT
                                            !.status = "panic",
                                            !.rpcs = Cardinality(uris)]
                             /\ discFault' = TRUE
                        ELSE /\ \E chosen \in SUBSET passed :
                                  /\ Cardinality(chosen) <= n
                                  /\ goRes' =
                                       [call EXCEPT
                                          !.status = IF chosen = {} THEN "nil"
                                                     ELSE "ok",
                                          !.rpcs = Cardinality(uris),
                                          !.infos =
                                            {[orch |-> o, info |-> replies[o]] :
                                               o \in chosen}]
                             /\ UNCHANGED discFault
    /\ UNCHANGED << dbPrice, cpc, wk, wkPrice, recvd, ctxDone, cycles, leaked,
                    lastDone, prevDone, poolRead, rpcOk, stored,
                    notDisc >>

DiscNext ==
    \/ CacheStart
    \/ \E o \in Orchs : getOrchInfo(o)
    \/ \E o \in Orchs : RecvRes(o)
    \/ \E o \in Orchs : RecvErr(o)
    \/ CtxTimeout
    \/ RecvCtxDone
    \/ CacheReturn
    \/ ReadPool

OrchNext == GetOrchestrators

\* ------------------------------------------------- the control endpoints
\* The values a query parameter may have, as sequences of characters
\* (<< >>: the parameter is absent).
QueryValues == {<< >>, <<"3", "0", "0">>, <<"-", "1">>, <<"x">>}

\* The names a job parameter may have, and net.VideoProfileLookup: the
\* profile of a name, the zero profile (Name "") when there is none.
JobNames == {"", "P144p30fps16x9", "nosuch"}
VideoProfileLookup(j) ==
    IF j \in {"P240p30fps4x3", "P144p30fps16x9"} THEN [Name |-> j]
    ELSE [Name |-> ""]

\* The stream ids a /transcode request may carry ("": none).
StrmIDs == {"", "s1"}

DigitOf ==
    [c \in {"0", "1", "2", "3", "4", "5", "6", "7", "8", "9"} |->
        CASE c = "0" -> 0 [] c = "1" -> 1 [] c = "2" -> 2 [] c = "3" -> 3
          [] c = "4" -> 4 [] c = "5" -> 5 [] c = "6" -> 6 [] c = "7" -> 7
          [] c = "8" -> 8 [] c = "9" -> 9]

RECURSIVE DigitsValue(_)
DigitsValue(ds) ==
    IF ds = << >> THEN 0
    ELSE 10 * DigitsValue(SubSeq(ds, 1, Len(ds) - 1)) + DigitOf[ds[Len(ds)]]

\* strconv.Itoa of a number from 0 to 99.
Itoa(k) ==
    LET digit(d) == CHOOSE c \in DOMAIN DigitOf : DigitOf[c] = d
    IN  IF k < 10 THEN << digit(k) >> ELSE << digit(k \div 10), digit(k % 10) >>

\* strconv.Atoi: an optional sign and at least one digit, an error
\* otherwise.
Atoi(str) ==
    LET signed == str # << >> /\ Head(str) \in {"+", "-"}
        ds == IF signed THEN Tail(str) ELSE str
        ok == ds # << >> /\ \A i \in 1 .. Len(ds) : ds[i] \in DOMAIN DigitOf
    IN  IF ~ok THEN [err |-> TRUE, val |-> 0]
        ELSE [err |-> FALSE,
              val |-> IF signed /\ Head(str) = "-" THEN 0 - DigitsValue(ds)
                      ELSE DigitsValue(ds)]

\* uint8(i)
Uint8(i) == i % 256

NoCtlReq ==
    [endpoint |-> "none", strmID |-> "", transcodeErr |-> FALSE,
     price |-> << >>, job |-> "", feecut |-> << >>, rewardcut |-> << >>]

\* The response of a handler that wrote nothing.
EmptyResponse == [status |-> 200, body |-> << >>]

\* The response after http.Error(w, text, code) was called for each of the
\* texts: the first call sets the status.
HttpError(texts, code) ==
    IF texts = << >> THEN EmptyResponse ELSE [status |-> code, body |-> texts]

CtlInit ==
    /\ cfg = [BroadcastPrice |-> BroadcastPrice,
              BroadcastJobVideoProfile |-> [Name |-> "P240p30fps4x3"],
              TranscoderFeeCut |-> 10,
              TranscoderRewardCut |-> 10,
              TranscoderSegmentPrice |-> 150]
    /\ ctlReq = NoCtlReq
    /\ ctlRes = EmptyResponse

\* /transcode
Transcode ==
    \E strmID \in StrmIDs, err \in BOOLEAN :
        /\ ctlReq' = [NoCtlReq EXCEPT !.endpoint = "transcode",
                                      !.strmID = strmID,
                                      !.transcodeErr = err]
        /\ ctlRes' =
             HttpError((IF strmID = "" THEN <<"Need to specify strmID">>
                        ELSE << >>)
                         \o (IF err THEN <<"Error transcoding.">> ELSE << >>),
                       500)
        /\ UNCHANGED << cfg, notCtl >>

\* /setBroadcastConfig
SetBroadcastConfig ==
    \E p \in QueryValues, j \in JobNames :
        LET pi == Atoi(p)
            jp == VideoProfileLookup(j)
        IN  /\ ctlReq' = [NoCtlReq EXCEPT !.endpoint = "setBroadcastConfig",
                                          !.price = p, !.job = j]
            /\ ctlRes' = EmptyResponse
            /\ cfg' =
                 IF p # << >> /\ pi.err THEN cfg
                 ELSE [cfg EXCEPT
                         !.BroadcastPrice = IF p # << >> THEN pi.val ELSE @,
                         !.BroadcastJobVideoProfile =
                            IF j # "" /\ jp.Name # "" THEN jp ELSE @]
            /\ UNCHANGED notCtl

\* /setTranscoderConfig
SetTranscoderConfig ==
    \E fc \in QueryValues, rc \in QueryValues, p \in QueryValues :
        LET fci == Atoi(fc)
            rci == Atoi(rc)
            pi == Atoi(p)
            c1 == IF fc # << >> /\ ~fci.err
                  THEN [cfg EXCEPT !.TranscoderFeeCut = Uint8(fci.val)]
                  ELSE cfg
            c2 == IF rc # << >> /\ ~rci.err
                  THEN [c1 EXCEPT !.TranscoderRewardCut = Uint8(rci.val)]
                  ELSE c1
            c3 == IF p # << >> /\ ~pi.err
                  THEN [c2 EXCEPT !.TranscoderSegmentPrice = pi.val]
                  ELSE c2
        IN  /\ ctlReq' = [NoCtlReq EXCEPT !.endpoint = "setTranscoderConfig",
                                          !.feecut = fc, !.rewardcut = rc,
                                          !.price = p]
            /\ ctlRes' = EmptyResponse
            /\ cfg' = IF fc # << >> /\ fci.err THEN cfg
                      ELSE IF rc # << >> /\ rci.err THEN c1
                      ELSE IF p # << >> /\ pi.err THEN c2
                      ELSE c3
            /\ UNCHANGED notCtl

CtlNext ==
    \/ Transcode
    \/ SetBroadcastConfig
    \/ SetTranscoderConfig

\* ------------------------------------------------------ the S3 session
\* Strings are sequences of pieces, "/" being a piece of its own and a
\* date being written digit by digit.
\* The keys of sessions, the names of files and the content types sniffed.
SessionKeys == {<< "sess", "/" >>, << "sess" >>, << "a", "/", "b", "/" >>}
FileNames == {<< "0.ts" >>, << "P144p", "/", "0.ts" >>}
FileTypes == {<< "video/mp2t" >>, << "application/octet-stream" >>}
AccessKeys == {<< "AKIA1" >>, << "AKIA2" >>}
Regions == {<< "us-east-1" >>, << "eu-west-1" >>}
\* The days on which a policy is created.
Times == [year : {FirstYear, FirstYear + 1}, month : {1, 12}, day : {1, 9, 31}]

\* strings.LastIndex(s, "/") + 1: the place of the last "/", 0 without one.
LastSlash(s) ==
    IF \E i \in 1 .. Len(s) : s[i] = "/"
    THEN CHOOSE i \in 1 .. Len(s) :
            s[i] = "/" /\ \A j \in i + 1 .. Len(s) : s[j] # "/"
    ELSE 0

FirstSlash(s) ==
    IF \E i \in 1 .. Len(s) : s[i] = "/"
    THEN CHOOSE i \in 1 .. Len(s) :
            s[i] = "/" /\ \A j \in 1 .. i - 1 : s[j] # "/"
    ELSE 0

\* A split at the first "/".
pathSplit_AtFirstSlash(s) ==
    [dir |-> SubSeq(s, 1, FirstSlash(s)),
     file |-> SubSeq(s, FirstSlash(s) + 1, Len(s))]

\* path.Split: i := strings.LastIndex(path, "/");
\* return path[:i+1], path[i+1:]
pathSplit(s) ==
    [dir |-> SubSeq(s, 1, LastSlash(s)),
     file |-> SubSeq(s, LastSlash(s) + 1, Len(s))]

\* Two digits, with a leading zero.
Digits2(k) == IF k < 10 THEN << "0" >> \o Itoa(k) ELSE Itoa(k)

\* time.Format("20060102")
FormatShort(t) ==
    Digits2(t.year \div 100) \o Digits2(t.year % 100) \o Digits2(t.month)
        \o Digits2(t.day)

Midnight == << "T", "0", "0", "0", "0", "0", "0", "Z" >>

\* hex.EncodeToString of the chain of HMACs, kept as what went into it.
signString(stringToSign, sregion, amzDate, secret) ==
    [keys |-> << << "AWS4" >> \o secret, amzDate, sregion, << "s3" >>,
                 << "aws4_request" >> >>,
     data |-> stringToSign]

\* createPolicy at the time t: the policy is the base64 text of the
\* document src.
createPolicy(key, bucket, region, secret, path, t) ==
    LET xAmzDate == FormatShort(t)
        xAmzCredential ==
            key \o << "/" >> \o xAmzDate \o << "/" >> \o region
                \o << "/", "s3", "/", "aws4_request" >>
        src == [expiration |-> [from |-> t,
                                hours |-> S3_POLICY_EXPIRE_IN_HOURS],
                bucket |-> bucket,
                acl |-> << "public-read" >>,
                contentType |-> << >>,
                key |-> path,
                algorithm |-> << "AWS4-HMAC-SHA256" >>,
                credential |-> xAmzCredential,
                date |-> xAmzDate \o Midnight]
        policy == [base64 |-> src]
    IN  [policy |-> policy,
         signature |-> signString(policy, region, xAmzDate, secret),
         credential |-> xAmzCredential,
         xAmzDate |-> xAmzDate \o Midnight]

\* The fields of the POST that postData builds for the session os, and the
\* file name it uploads under.
postData(os, fileName, fileType) ==
    LET sp == pathSplit(os.key \o fileName)
        fields ==
            ("acl" :> << "public-read" >>) @@ ("Content-Type" :> fileType)
            @@ ("key" :> sp.dir \o << "${filename}" >>)
            @@ ("policy" :> os.policy)
    IN  [fields |->
            IF os.isGoogle
            THEN fields @@ ("GoogleAccessId" :> os.credential)
                        @@ ("signature" :> os.signature)
            ELSE fields @@ ("x-amz-algorithm" :> << "AWS4-HMAC-SHA256" >>)
                        @@ ("x-amz-credential" :> os.credential)
                        @@ ("x-amz-date" :> os.xAmzDate)
                        @@ ("x-amz-signature" :> os.signature),
         fileName |-> sp.file,
         path |-> sp.dir \o sp.file]

S3Init ==
    /\ s3In = [call |-> "none"]
    /\ s3Out = [call |-> "none"]

\* createPolicy is called for a session of this node's bucket.
CreatePolicy ==
    \E key \in AccessKeys, region \in Regions, path \in SessionKeys,
       t \in Times :
        /\ s3In' = [call |-> "createPolicy", key |-> key, region |-> region,
                    path |-> path, t |-> t]
        /\ s3Out' = [call |-> "createPolicy",
                     pol |-> createPolicy(key, << "bucket" >>, region,
                                          << "secret" >>, path, t)]
        /\ UNCHANGED notS3

\* postData is called in a session that another node described (its policy
\* made by createPolicy on an AWS bucket, by the Google signer otherwise);
\* resp: the request fails, the storage answers with a body, or with none.
PostData ==
    \E isGoogle \in BOOLEAN, key \in SessionKeys, fileName \in FileNames,
       fileType \in FileTypes,
       resp \in {"error", "body", "empty"} :
        LET pol == createPolicy(<< "AKIA1" >>, << "bucket" >>,
                                << "us-east-1" >>, << "secret" >>, key,
                                [year |-> FirstYear, month |-> 1, day |-> 9])
            os == IF isGoogle
                  THEN [isGoogle |-> TRUE, key |-> key,
                        policy |-> [base64 |-> "gs"],
                        signature |-> [keys |-> << >>, data |-> "gs"],
                        credential |-> << "signer@example.com" >>,
                        xAmzDate |-> << >>]
                  ELSE [isGoogle |-> FALSE, key |-> key,
                        policy |-> pol.policy, signature |-> pol.signature,
                        credential |-> pol.credential,
                        xAmzDate |-> pol.xAmzDate]
            post == postData(os, fileName, fileType)
        IN  /\ s3In' = [call |-> "postData", os |-> os,
                        fileName |-> fileName, fileType |-> fileType,
                        resp |-> resp]
            /\ s3Out' = [call |-> "postData", fields |-> post.fields,
                         fileName |-> post.fileName,
                         res |-> IF resp = "empty" THEN post.path
                                 ELSE << >>,
                         err |-> resp # "empty"]
            /\ UNCHANGED notS3

S3Next ==
    \/ CreatePolicy
    \/ PostData

\* ------------------------------------------------- /activateTranscoder
\* The steps of an activation, in their order.
ActOrder ==
    << "waitRound", "roundInit", "register", "registerMined", "bond",
       "bondMined" >>

ActInit ==
    /\ apc = "idle"
    /\ asteps = << >>
    /\ atxs = << >>
    /\ afailed = 0
    /\ alogged = {}
    /\ aregGas = 0
    /\ abondGas = 0

\* tx.Gas().Cmp(receipt.GasUsed) == 0 tells of a transaction that used up
\* its gas: it failed.
Succeeded(gasUsed) == gasUsed # TxGas

\* The handler carries out step name, which fails or not, and goes on at
\* next, or returns.
ActStep(name, failed, returns, next) ==
    /\ asteps' = Append(asteps, name)
    /\ afailed' = IF failed /\ afailed = 0 THEN Len(asteps) + 1 ELSE afailed
    /\ apc' = IF returns THEN "done" ELSE next

\* active, err := Eth.IsActiveTranscoder(); an error is logged only.
ActIsActive ==
    /\ apc = "idle"
    /\ \E active \in BOOLEAN, err \in BOOLEAN :
        /\ apc' = IF active THEN "active" ELSE "waitRound"
        /\ alogged' = IF err THEN {"IsActiveTranscoder"} ELSE {}
    /\ UNCHANGED << asteps, atxs, afailed, aregGas, abondGas, notAct >>

\* err = eth.WaitUntilNextRound(...)
ActWaitUntilNextRound ==
    /\ apc = "waitRound"
    /\ \E err \in BOOLEAN : ActStep("waitRound", err, err, "roundInit")
    /\ UNCHANGED << atxs, alogged, aregGas, abondGas, notAct >>

\* if err := eth.CheckRoundAndInit(...); err != nil { return }
ActCheckRoundAndInit ==
    /\ apc = "roundInit"
    /\ \E err \in BOOLEAN : ActStep("roundInit", err, err, "register")
    /\ UNCHANGED << atxs, alogged, aregGas, abondGas, notAct >>

\* tx, err := Eth.Transcoder(10, 5, big.NewInt(100))
ActTranscoder ==
    /\ apc = "register"
    /\ \E err \in BOOLEAN :
        /\ ActStep("register", err, err, "registerMined")
        /\ atxs' = IF err THEN atxs ELSE Append(atxs, "Transcoder")
    /\ UNCHANGED << alogged, aregGas, abondGas, notAct >>

\* receipt, err := eth.WaitForMinedTx(...); an error returns, a receipt of a
\* failed registration is logged.
ActRegistrationMined ==
    /\ apc = "registerMined"
    /\ \E err \in BOOLEAN, gasUsed \in 1 .. MaxGasUsed :
        /\ ActStep("registerMined", err \/ ~Succeeded(gasUsed), err,
                   "roundInitAgain")
        /\ aregGas' = IF err THEN 0 ELSE gasUsed
    /\ UNCHANGED << atxs, alogged, abondGas, notAct >>

\* eth.CheckRoundAndInit(...), whose result nothing reads (the call logs
\* its error).
ActCheckRoundAgain ==
    /\ apc = "roundInitAgain"
    /\ apc' = "bond"
    /\ \E err \in BOOLEAN :
        alogged' = IF err THEN alogged \cup {"CheckRoundAndInit"} ELSE alogged
    /\ UNCHANGED << asteps, atxs, afailed, aregGas, abondGas, notAct >>

\* tx, err = Eth.Bond(big.NewInt(100), Eth.Account().Address)
ActBond ==
    /\ apc = "bond"
    /\ \E err \in BOOLEAN :
        /\ ActStep("bond", err, err, "bondMined")
        /\ atxs' = IF err THEN atxs ELSE Append(atxs, "Bond")
    /\ UNCHANGED << alogged, aregGas, abondGas, notAct >>

\* receipt, err = eth.WaitForMinedTx(...); then the total stake is logged.
ActBondMined ==
    /\ apc = "bondMined"
    /\ \E err \in BOOLEAN, gasUsed \in 1 .. MaxGasUsed :
        /\ ActStep("bondMined", err \/ ~Succeeded(gasUsed), TRUE, "done")
        /\ abondGas' = IF err THEN 0 ELSE gasUsed
    /\ UNCHANGED << atxs, alogged, aregGas, notAct >>

\* The next request to /activateTranscoder, while requests are followed.
ActAgain ==
    /\ apc \in {"done", "active"}
    /\ apc' = "idle"
    /\ asteps' = << >>
    /\ atxs' = << >>
    /\ afailed' = 0
    /\ alogged' = {}
    /\ aregGas' = 0
    /\ abondGas' = 0
    /\ UNCHANGED notAct

ActNext ==
    \/ ActIsActive
    \/ ActWaitUntilNextRound
    \/ ActCheckRoundAndInit
    \/ ActTranscoder
    \/ ActRegistrationMined
    \/ ActCheckRoundAgain
    \/ ActBond
    \/ ActBondMined
    \/ ActAgain

\* ------------------------------------------- createBroadcastJob on its own
\* No transaction.
NoTx == [strmID |-> "", tOps |-> "", price |-> 0]

NoJobIn ==
    [roundInitErr |-> FALSE, submitErr |-> FALSE, minedErr |-> FALSE,
     gasUsed |-> 0, strmID |-> "", profile |-> ""]

JobInit ==
    /\ jobIn = NoJobIn
    /\ jobOut = [res |-> "none", tx |-> NoTx]

\* createBroadcastJob(s, hlsStrm) for the stream strmID with the job profile
\* that is configured.  CheckRoundAndInit may fail, which nothing reads;
\* Eth.Job returns the transaction tx or an error; WaitForMinedTx returns a
\* receipt with gasUsed or an error.
CreateBroadcastJob ==
    \E roundInitErr \in BOOLEAN, submitErr \in BOOLEAN, minedErr \in BOOLEAN,
       gasUsed \in 1 .. MaxGasUsed, strmID \in {"s1", "s2"},
       profile \in {"P240p30fps4x3", "P144p30fps16x9"} :
        LET tx == [strmID |-> strmID, tOps |-> profile,
                   price |-> BroadcastPrice]
            res == createBroadcastJob(submitErr, minedErr, gasUsed)
        IN  /\ jobIn' = [roundInitErr |-> roundInitErr,
                         submitErr |-> submitErr, minedErr |-> minedErr,
                         gasUsed |-> gasUsed, strmID |-> strmID,
                         profile |-> profile]
            /\ jobOut' = [res |-> res, tx |-> IF res = "ok" THEN tx ELSE NoTx]
            /\ UNCHANGED notJob

JobNext == CreateBroadcastJob

\* ------------------------------------ transcoders and pool records
\* A *big.Int: nil, or a number.
NilInt == [isNil |-> TRUE, val |-> 0]

BigInt(v) == [isNil |-> FALSE, val |-> v]

\* The rounds a transcoder on the chain may carry.
Rounds == {NilInt} \cup {BigInt(v) : v \in 0 .. MaxRound}

\* The *lpTypes.Transcoder values: nil, or a transcoder.
NilTranscoder ==
    [isNil |-> TRUE, ServiceURI |-> "", Address |-> "",
     ActivationRound |-> NilInt, DeactivationRound |-> NilInt]

Transcoders ==
    {NilTranscoder} \cup
    [isNil : {FALSE}, ServiceURI : {"", "o1.example"}, Address : {"0xa", "0xb"},
     ActivationRound : Rounds, DeactivationRound : Rounds]

NoConv ==
    [status |-> "none", ServiceURI |-> "", EthereumAddr |-> "",
     ActivationRound |-> 0, DeactivationRound |-> 0]

\* func ethOrchToDBOrch(orch *lpTypes.Transcoder) *common.DBOrch: the
\* record it returns, nil, or the panic of (*big.Int).Int64 on a nil
\* pointer.  The statements after its return are never executed.
ethOrchToDBOrch(orch) ==
    IF orch.isNil THEN [NoConv EXCEPT !.status = "nil"]
    ELSE IF orch.ActivationRound.isNil \/ orch.DeactivationRound.isNil
    THEN [NoConv EXCEPT !.status = "panic"]
    ELSE [status |-> "ok", ServiceURI |-> orch.ServiceURI,
          EthereumAddr |-> orch.Address,
          ActivationRound |-> orch.ActivationRound.val,
          DeactivationRound |-> orch.DeactivationRound.val]

ConvInit ==
    /\ convIn = NilTranscoder
    /\ convOut = NoConv

\* A transcoder read from the chain is converted.
Convert ==
    \E orch \in Transcoders :
        /\ convIn' = orch
        /\ convOut' = ethOrchToDBOrch(orch)
        /\ UNCHANGED notConv

ConvNext == Convert

\* ------------------------------------------- the poller of orchestrator info
\* pollOrchestratorInfo around its calls of cacheDBOrchs, of which only the
\* start and the returned error matter here.
PollInit ==
    /\ ppc = "start"
    /\ bg = "none"
    /\ tickReady = FALSE
    /\ ticks = 0
    /\ pollCtx = FALSE
    /\ pollCycles = 0
    /\ lateCycles = 0

\* if err := dbo.cacheDBOrchs(): the call
PollSyncStart ==
    /\ ppc = "start"
    /\ ppc' = "sync"
    /\ pollCycles' = pollCycles + 1
    /\ UNCHANGED << bg, tickReady, ticks, pollCtx, lateCycles, notPoll >>

\* ...; err != nil { return err }; ticker := getTicker(); go func() {...}();
\* return nil
PollSyncEnd ==
    /\ ppc = "sync"
    /\ \E err \in BOOLEAN :
         IF err THEN ppc' = "failed" /\ UNCHANGED bg
         ELSE ppc' = "done" /\ bg' = "select"
    /\ UNCHANGED << tickReady, ticks, pollCtx, pollCycles, lateCycles,
                    notPoll >>

\* The ticker sends a tick; ticker.C holds one tick, further ones are
\* dropped.
TickerTick ==
    /\ bg # "none"
    /\ ticks < MaxTicks
    /\ ticks' = ticks + 1
    /\ tickReady' = TRUE
    /\ UNCHANGED << ppc, bg, pollCtx, pollCycles, lateCycles, notPoll >>

\* The caller cancels ctx.
PollCancel ==
    /\ ~pollCtx
    /\ pollCtx' = TRUE
    /\ UNCHANGED << ppc, bg, tickReady, ticks, pollCycles, lateCycles,
                    notPoll >>

\* case <-ctx.Done(): return
BgCtxDone ==
    /\ bg = "select"
    /\ pollCtx
    /\ bg' = "exit"
    /\ UNCHANGED << ppc, tickReady, ticks, pollCtx, pollCycles, lateCycles,
                    notPoll >>

\* case <-ticker.C: if err := dbo.cacheDBOrchs(): the call.  The select
\* takes any of its cases that are ready.
BgTick ==
    /\ bg = "select"
    /\ tickReady
    /\ tickReady' = FALSE
    /\ bg' = "cycle"
    /\ pollCycles' = pollCycles + 1
    /\ lateCycles' = IF pollCtx THEN lateCycles + 1 ELSE lateCycles
    /\ UNCHANGED << ppc, ticks, pollCtx, notPoll >>

\* cacheDBOrchs returns to the goroutine; an error is logged.
BgCycleEnd ==
    /\ bg = "cycle"
    /\ bg' = "select"
    /\ UNCHANGED << ppc, tickReady, ticks, pollCtx, pollCycles, lateCycles,
                    notPoll >>

PollNext ==
    \/ PollSyncStart
    \/ PollSyncEnd
    \/ TickerTick
    \/ PollCancel
    \/ BgCtxDone
    \/ BgTick
    \/ BgCycleEnd

\* ---------------------------------------------- the metrics of telemetry
\* The telemetry handlers together with the records they make of the
\* measures mSegmentEmerged, mSegmentTranscodeFailed and mTranscodeRetried.

\* cen.emergeTimes[nonce][seqNo] exists.
IsPending(n, q) == emergeTimes[n].has /\ emergeTimes[n].at[q] # NoCenTime

\* What was reported for a segment to its averager.
NothingSeen == [emerged |-> FALSE, transcoded |-> FALSE, failed |-> FALSE]

NoEv ==
    [op |-> "none", nonce |-> 1, seqNo |-> 0, code |-> "", permanent |-> FALSE,
     had |-> FALSE, pending |-> FALSE, emerged |-> 0, failed |-> 0,
     retried |-> << >>]

MetInit ==
    /\ mSegmentEmerged = 0
    /\ mSegmentTranscodeFailed = 0
    /\ emergedFor = [n \in Nonces |-> [q \in SeqNos |-> 0]]
    /\ seen = [n \in Nonces |-> [q \in SeqNos |-> NothingSeen]]
    /\ lastEv = NoEv

\* The call op(n, q, ...) records em times mSegmentEmerged, fl times
\* mSegmentTranscodeFailed, and mTranscodeRetried with each of labels.
Records(op, n, q, code, permanent, em, fl, labels) ==
    /\ mSegmentEmerged' = mSegmentEmerged + em
    /\ mSegmentTranscodeFailed' = mSegmentTranscodeFailed + fl
    /\ lastEv' = [op |-> op, nonce |-> n, seqNo |-> q, code |-> code,
                  permanent |-> permanent, had |-> success[n].present,
                  pending |-> IsPending(n, q), emerged |-> em, failed |-> fl,
                  retried |-> labels]

\* A countSegmentEmerged that records for every call.
EmergedRecords_Always(n, q) == 1

\* countSegmentEmerged records mSegmentEmerged when the entry exists.
EmergedRecords(n, q) == IF IsPending(n, q) THEN 1 ELSE 0

\* The averager of n, if there is one, was told fld of segment q.
Reports(n, q, fld) ==
    IF success[n].present THEN [seen EXCEPT ![n][q][fld] = TRUE] ELSE seen

\* func StreamCreated(hlsStrmID string, nonce uint64)
StreamCreated(n) ==
    /\ streamCreated(n)
    /\ Records("StreamCreated", n, 0, "", FALSE, 0, 0, << >>)
    /\ seen' = [seen EXCEPT ![n] = [q \in SeqNos |-> NothingSeen]]
    /\ UNCHANGED emergedFor

\* func StreamEnded(nonce uint64)
StreamEnded(n) ==
    /\ streamEnded(n)
    /\ Records("StreamEnded", n, 0, "", FALSE, 0, 0, << >>)
    /\ UNCHANGED << emergedFor, seen >>

\* func SegmentEmerged(nonce, seqNo uint64, profilesNum int, dur float64)
SegmentEmerged(n, q) ==
    /\ segmentEmerged(n, q)
    /\ Records("SegmentEmerged", n, q, "", FALSE, 0, 0, << >>)
    /\ emergedFor' = [emergedFor EXCEPT ![n][q] = 0]
    /\ seen' = Reports(n, q, "emerged")

\* func SegmentFullyTranscoded, with its records
FullyTranscoded(n, q, errCode) ==
    /\ SegmentFullyTranscoded(n, q, errCode)
    /\ Records("SegmentFullyTranscoded", n, q, errCode, FALSE,
               EmergedRecords(n, q), 0, << >>)
    /\ emergedFor' = [emergedFor EXCEPT ![n][q] = @ + EmergedRecords(n, q)]
    /\ seen' = Reports(n, q, IF errCode # "" /\ errCode # "SessionEnded"
                             THEN "failed" ELSE "transcoded")

\* func SegmentUploadFailed(nonce, seqNo, code, reason, permanent)
SegmentUploadFailed(n, q, code, permanent) ==
    LET em == IF permanent THEN EmergedRecords(n, q) ELSE 0
    IN  /\ segmentUploadFailed(n, q, permanent)
        /\ Records("SegmentUploadFailed", n, q, code, permanent, em, 0, << >>)
        /\ emergedFor' = [emergedFor EXCEPT ![n][q] = @ + em]
        /\ seen' = IF permanent THEN Reports(n, q, "failed") ELSE seen

\* func SegmentTranscodeFailed(subType, nonce, seqNo, err, permanent)
SegmentTranscodeFailed(n, q, code, permanent) ==
    LET em == IF permanent THEN EmergedRecords(n, q) ELSE 0
    IN  /\ segmentTranscodeFailed(n, q, code, permanent)
        /\ Records("SegmentTranscodeFailed", n, q, code, permanent, em, 1,
                   << >>)
        /\ emergedFor' = [emergedFor EXCEPT ![n][q] = @ + em]
        /\ seen' = IF permanent
                   THEN Reports(n, q, IF code # "SessionEnded" THEN "failed"
                                      ELSE "transcoded")
                   ELSE seen

\* The emerge-time entries a sweep of the watcher finds too old:
\* if ago > timeToWaitForError
LostSegments ==
    {nq \in Nonces \X SeqNos :
        /\ IsPending(nq[1], nq[2])
        /\ IsLost(emergeTimes[nq[1]].at[nq[2]], cenNow)}

\* One sweep of the watcher, with its records: for each lost segment one
\* of mSegmentEmerged and one of mSegmentTranscodeFailed, which the context
\* of the watcher tags with the error code LostSegment.
WatcherSweep ==
    /\ timeoutWatcher
    /\ Records("timeoutWatcher", 1, 0, "LostSegment", FALSE,
               Cardinality(LostSegments),
               Cardinality(LostSegments), << >>)
    /\ emergedFor' =
         [n \in Nonces |->
            [q \in SeqNos |->
               IF << n, q >> \in LostSegments THEN emergedFor[n][q] + 1
               ELSE emergedFor[n][q]]]
    /\ UNCHANGED seen

\* The clock, with no record.
MetTime(limit) == CenTime(limit) /\ UNCHANGED << cenEvents, metVars, notMet >>

\* One more of the MaxCenEvents telemetry events that are followed.
ReportedMet ==
    /\ cenEvents < MaxCenEvents
    /\ cenEvents' = cenEvents + 1
    /\ UNCHANGED notMet

\* The telemetry events of the segments qs of the sessions ns with their
\* records, the watcher and a clock that stops at limit.
MetStep(ns, qs, limit) ==
    \/ \E n \in ns : StreamCreated(n) /\ ReportedMet
    \/ \E n \in ns : StreamEnded(n) /\ ReportedMet
    \/ \E n \in ns, q \in qs : SegmentEmerged(n, q) /\ ReportedMet
    \/ \E n \in ns, q \in qs, e \in ErrCodes :
         FullyTranscoded(n, q, e) /\ ReportedMet
    \/ \E n \in ns, q \in qs, p \in BOOLEAN :
         SegmentUploadFailed(n, q, "", p) /\ ReportedMet
    \/ \E n \in ns, q \in qs, e \in ErrCodes \ {""}, p \in BOOLEAN :
         SegmentTranscodeFailed(n, q, e, p) /\ ReportedMet
    \/ WatcherSweep /\ UNCHANGED << cenEvents, notMet >>
    \/ MetTime(limit)

\* One session, over a short time.
MetNext == MetStep({1}, {0, 1}, MaxRateTime)

\* The reports of one session to its averager, for more segments than the
\* averager has entries.
SlotNext ==
    \/ StreamCreated(1) /\ ReportedMet
    \/ \E q \in SeqNos : SegmentEmerged(1, q) /\ ReportedMet
    \/ \E q \in SeqNos, e \in ErrCodes :
         FullyTranscoded(1, q, e) /\ ReportedMet
    \/ \E q \in SeqNos : SegmentUploadFailed(1, q, "", TRUE) /\ ReportedMet

\* A label that changes to ">10" one try early.
TryLabel_Below10(tries) ==
    IF tries < 10 THEN Itoa(tries) ELSE << ">", "1", "0" >>

\* label := ">10"; if ts.tries < 11 { label = strconv.Itoa(ts.tries) }
TryLabel(tries) == IF tries < 11 THEN Itoa(tries) ELSE << ">", "1", "0" >>

\* func TranscodeTry(nonce, seqNo uint64), for at most MaxTries tries of a
\* segment
TranscodeTry(n, q) ==
    LET av == success[n]
        ts == av.tries[q]
    IN  /\ ts.tries < MaxTries
        /\ IF av.present
           THEN IF ts.tries > 0
                THEN /\ success' = [success EXCEPT ![n].tries[q].tries = @ + 1]
                     /\ Records("TranscodeTry", n, q, "", FALSE, 0, 0,
                                << TryLabel(ts.tries + 1) >>)
                ELSE /\ success' = [success EXCEPT ![n].tries[q] =
                                       [tries |-> 1, first |-> cenNow]]
                     /\ Records("TranscodeTry", n, q, "", FALSE, 0, 0, << >>)
           ELSE /\ UNCHANGED success
                /\ Records("TranscodeTry", n, q, "", FALSE, 0, 0, << >>)
        /\ UNCHANGED << cenNow, emergeTimes, mSuccessRate, watcherWake,
                        cenEvents, emergedFor, seen, notMet >>

\* The tries of the segments of one session that is created and ended at
\* any time, and the watcher.
TryNext ==
    \/ StreamCreated(1) /\ UNCHANGED << cenEvents, notMet >>
    \/ StreamEnded(1) /\ UNCHANGED << cenEvents, notMet >>
    \/ \E q \in {0, 1} : TranscodeTry(1, q)
    \/ WatcherSweep /\ UNCHANGED << cenEvents, notMet >>
    \/ MetTime(MaxCenTime)

\* A telemetry event that is reported in the first MaxRateTime of the
\* clock.
ReportedEarly == cenNow <= MaxRateTime /\ ReportedMet

\* The sweeps of the watcher and the passing of time, which go on for ever
\* in the program: for { ...; time.Sleep(timeoutWatcherPause) }.
WatcherGoes == WatcherSweep /\ UNCHANGED << cenEvents, notMet >>

TimeGoes == MetTime(MaxLiveTime)

\* What a step of WatcherGoes and a step of TimeGoes are known by: the
\* watcher alone sets the end of its sleep, time alone moves the clock.
WatcherSweeps ==
    /\ cenNow >= watcherWake
    /\ watcherWake' = cenNow + TimeoutWatcherPause

TimePasses ==
    /\ cenNow + CenTick <= MaxLiveTime
    /\ cenNow < watcherWake
    /\ cenNow' = cenNow + CenTick

\* One session that is created, reports segments and ends, and the watcher
\* over a time long enough after the last event to delete what it deletes.
LiveNext ==
    \/ StreamCreated(1) /\ ReportedEarly
    \/ StreamEnded(1) /\ ReportedEarly
    \/ \E q \in {0, 1} : SegmentEmerged(1, q) /\ ReportedEarly
    \/ \E q \in {0, 1} : FullyTranscoded(1, q, "") /\ ReportedEarly
    \/ WatcherGoes
    \/ TimeGoes

Init ==
    /\ PubInit /\ SubInit /\ WaitInit /\ SegInit /\ CenInit /\ AvgInit
    /\ DiscInit /\ CtlInit /\ MetInit /\ RingInit
    /\ PollInit /\ ConvInit /\ JobInit /\ ActInit /\ S3Init

PubSpec == Init /\ [][PubNext]_vars

\* The subscribe side does not read the on-chain client.
SubSpecInit == Init /\ ethOn

SubSpec == SubSpecInit /\ [][SubNext]_vars

WaitSpec == SubSpecInit /\ [][WaitNext]_vars

SegSpecInit ==
    /\ PubInit /\ ethOn /\ SegSubStates /\ WaitInit /\ SegInit /\ CenInit
    /\ AvgInit /\ DiscInit /\ CtlInit /\ MetInit /\ RingInit
    /\ PollInit /\ ConvInit /\ JobInit /\ ActInit /\ S3Init

SegSpec == SegSpecInit /\ [][SegNext]_vars

CenSpec == SubSpecInit /\ [][CenNext]_vars

WatchSpec == SubSpecInit /\ [][WatchNext]_vars

AvgSpec == SubSpecInit /\ [][AvgNext]_vars

DiscSpec == SubSpecInit /\ [][DiscNext]_vars

OrchSpecInit ==
    /\ PubInit /\ ethOn /\ SubInit /\ WaitInit /\ SegInit /\ CenInit /\ AvgInit
    /\ DiscStores /\ CtlInit /\ MetInit /\ RingInit
    /\ PollInit /\ ConvInit /\ JobInit /\ ActInit /\ S3Init

OrchSpec == OrchSpecInit /\ [][OrchNext]_vars

CtlSpec == SubSpecInit /\ [][CtlNext]_vars

MetSpec == SubSpecInit /\ [][MetNext]_vars

SlotSpec == SubSpecInit /\ [][SlotNext]_vars

TrySpec == SubSpecInit /\ [][TryNext]_vars

PollSpec == SubSpecInit /\ [][PollNext]_vars

ConvSpec == SubSpecInit /\ [][ConvNext]_vars

JobSpec == SubSpecInit /\ [][JobNext]_vars

ActSpec == SubSpecInit /\ [][ActNext]_vars

S3Spec == SubSpecInit /\ [][S3Next]_vars

\* The watcher sweeps again and again, and time passes.
LiveSpec ==
    /\ SubSpecInit
    /\ [][LiveNext]_vars
    /\ WF_watcherWake(WatcherSweeps)
    /\ WF_cenNow(TimePasses)

\* The unsubscribe worker runs again and again, and time passes.
ReapSpec ==
    /\ SubSpecInit
    /\ [][ReapNext]_vars
    /\ WF_<< wpc, wTodo >>(WorkerSteps)
    /\ WF_now(ClockSteps)

RingSpecInit ==
    /\ PubInit /\ ethOn /\ SubInit /\ WaitInit /\ SegInit /\ CenInit /\ AvgInit
    /\ DiscInit /\ CtlInit /\ MetInit /\ RingSizes /\ PollInit /\ ConvInit /\ JobInit /\ ActInit /\ S3Init

RingSpec == RingSpecInit /\ [][RingNext]_vars

\* ======================================================== publish claims
\* The handler of h has registered its RTMP stream (it is past AddStream).
PastRegistration(h) == pc[h] = "spawn" \/ seg[h] # "none"

\* The publish session of h exists: registered and not yet ended.
SessionLive(h) == PastRegistration(h) /\ endpc[h] = "none"

\* What a handler started beyond registering its RTMP stream.
StartedNothing(h) ==
    /\ seg[h] = "none"
    /\ ~bcast[h]
    /\ jobs[h] = << >>
    /\ HlsId(h) \notin streams
    /\ \A i \in RtmpIds : rtmpToHLS[i] # HlsId(h)

\* The shared state a publish session lives in.
sessionState == << streams, rtmpToHLS, seg, eofWrite, bcast, jobs >>

\* C1: a publish handler that finds its stream id in the registry returns
\* AlreadyExists and changes nothing: the registry, broadcastRtmpToHLSMap
\* and every session's segmenter, broadcaster and jobs stay as they were,
\* and the failed handler has started no segmenter, broadcaster or job.
C1_DuplicatePublishRejected ==
    /\ [][\A h \in Pubs :
            (pc[h] = "checkExists" /\ pc'[h] # "checkExists"
                /\ GetStream(streams, rtmpId[h]))
            => /\ result'[h] = "ErrAlreadyExists"
               /\ pc'[h] = "done"
               /\ UNCHANGED sessionState]_vars
    /\ [](\A h \in Pubs : result[h] = "ErrAlreadyExists" => StartedNothing(h))

\* A second publish of an id was rejected while the first session runs.
C1_Witness ==
    \E h1, h2 \in Pubs :
        /\ h1 # h2
        /\ rtmpId[h1] = rtmpId[h2]
        /\ result[h2] = "ErrAlreadyExists"
        /\ result[h1] = "nil"
        /\ seg[h1] = "running"
        /\ rtmpId[h1] \in streams
        /\ HlsId(h1) \in streams
        /\ rtmpToHLS[rtmpId[h1]] = HlsId(h1)

\* C2: at most one publish session exists per stream id: no two handlers
\* carrying the same id are both past registration with their session
\* not ended.
C2_OneSessionPerStreamID ==
    \A h1, h2 \in Pubs :
        (h1 # h2 /\ rtmpId[h1] = rtmpId[h2])
        => ~(SessionLive(h1) /\ SessionLive(h2))

\* Two handlers raced for one id: both passed the existence check, one
\* registered and the other was refused by the registry.
C2_Witness ==
    \E h1, h2 \in Pubs :
        /\ h1 # h2
        /\ rtmpId[h1] = rtmpId[h2]
        /\ SessionLive(h1)
        /\ result[h2] = "ErrRTMPPublish"

C4_JobRetriedOnce ==
    \A h \in Pubs :
        /\ Len(jobs[h]) <= 2
        /\ Len(jobs[h]) = 2 => (jobs[h][1] # "ok" /\ waitRes[h] = "ok")
        /\ (ethOn /\ pc[h] = "done")
            => (result[h] = "nil"
                    <=> \E i \in 1 .. Len(jobs[h]) : jobs[h][i] = "ok")
        /\ (pc[h] = "done" /\ Len(jobs[h]) = 2 /\ jobs[h][2] # "ok")
            => result[h] = "ErrBroadcast"

\* The first attempt failed, the round advanced, the second one succeeded.
C4_Witness ==
    \E h \in Pubs :
        /\ jobs[h] = << "ErrBroadcast", "ok" >>
        /\ waitRes[h] = "ok"
        /\ result[h] = "nil"

\* C5: the step in which job creation fails for good (the wait for the next
\* round or the second attempt fails) returns ErrBroadcast and kills
\* nothing: the registry, broadcastRtmpToHLSMap, the segmenter and the
\* broadcaster are as before, the session's two streams registered.
C5_JobFailureKeepsStream ==
    [][\A h \in Pubs :
        (pc[h] \in {"waitRound", "job2"} /\ pc'[h] = "done"
            /\ result'[h] = "ErrBroadcast")
        => /\ UNCHANGED << streams, rtmpToHLS, seg, eofWrite, bcast >>
           /\ seg'[h] # "none"
           /\ bcast'[h]
           /\ (\A g \in Pubs \ {h} : rtmpId[g] = rtmpId[h] => endpc[g] = "none")
                => (rtmpId[h] \in streams' /\ HlsId(h) \in streams')]_vars

\* Both attempts failed; the session's streams are registered and its
\* segmenter and broadcaster run.
C5_Witness ==
    \E h \in Pubs :
        /\ result[h] = "ErrBroadcast"
        /\ Len(jobs[h]) = 2
        /\ seg[h] = "running"
        /\ bcast[h]
        /\ rtmpId[h] \in streams
        /\ HlsId(h) \in streams

\* No other handler registered the stream id of h.
OnlyPublisher(h) ==
    \A g \in Pubs \ {h} : rtmpId[g] = rtmpId[h] => ~PastRegistration(g)

\* C6 as stated: when the end handler has returned neither stream is
\* registered, and in no state exactly one of the two has been deleted.
C6_Original ==
    \A h \in Pubs :
        /\ endpc[h] = "done"
            => (rtmpId[h] \notin streams /\ HlsId(h) \notin streams)
        /\ (result[h] = "nil" /\ OnlyPublisher(h))
            => (rtmpId[h] \in streams <=> HlsId(h) \in streams)

\* C6, amended: the end handler deletes the RTMP stream first and the HLS
\* stream in a second registry operation.  For a stream id no other
\* connection registered: between the two deletes the RTMP stream is gone
\* and the HLS stream still registered, and when the handler has returned
\* neither stream is registered.
C6_EndDeletesBothInTwoSteps ==
    \A h \in Pubs :
        OnlyPublisher(h) =>
            /\ endpc[h] = "deleteHLS"
                => (rtmpId[h] \notin streams /\ HlsId(h) \in streams)
            /\ endpc[h] = "done"
                => (rtmpId[h] \notin streams /\ HlsId(h) \notin streams)

\* An end handler has returned for a session that had both streams.
C6_Witness ==
    \E h \in Pubs :
        /\ endpc[h] = "done"
        /\ OnlyPublisher(h)
        /\ seg[h] # "none"
        /\ rtmpId[h] \notin streams
        /\ HlsId(h) \notin streams

\* C7 as stated: once the segmenter goroutine of a session has ended, the
\* write of an EOF segment to the HLS stream has been issued.
C7_EOFOnEverySegmenterExit ==
    \A h \in Pubs : seg[h] = "exited" => eofWrite[h] # "none"

\* ====================================================== subscribe claims
\* A step inserts exactly one segment, into one HLS buffer.
OneInsertion ==
    \E b \in BufIds :
        /\ bufObj'[b].n = bufObj[b].n + 1
        /\ \A c \in BufIds \ {b} : bufObj'[c].n = bufObj[c].n

NoInsertion == \A b \in BufIds : bufObj'[b].n = bufObj[b].n

\* C8 as stated: a delivered non-EOF message inserts exactly one segment;
\* the delivery of EOF writes EOF to the buffer and unsubscribes, and no
\* segment is inserted in that delivery nor into a buffer that is at EOF.
C8_EOFTerminal ==
    [][\A r \in Reqs :
        /\ DeliverMsg(r, FALSE) => OneInsertion
        /\ (DeliverMsg(r, TRUE) /\ ~fault')
            => /\ sub'[r] = "closed"
               /\ bufObj'[cbBuf[r]].eof
               /\ NoInsertion
        /\ \A b \in BufIds : bufObj[b].eof => bufObj'[b].n = bufObj[b].n]_vars

\* C9: an hlsSubTimer entry is never older than the idle limit plus the
\* worker's period: by then the worker has unsubscribed the stream, which
\* closes its subscriptions and reclaims its HLS buffer, so that a segment
\* request for it returns NotFound, and has deleted the entry; only the
\* worker deletes entries.
C9_IdleStreamReaped ==
    /\ [](\A i \in Sids :
            hlsSubTimer[i] # NoTime
            => now - hlsSubTimer[i] <= IdleLimit + UnsubFreq)
    /\ [][\A i \in Sids :
            (hlsSubTimer[i] # NoTime /\ hlsSubTimer'[i] = NoTime)
            => (wpc = "delete" /\ wSid = i)]_vars
    /\ [][\A i \in Sids :
            (wpc' = "delete" /\ wSid' = i /\ wpc # "delete")
            => /\ \A r \in Reqs : rsid[r] = i => sub'[r] # "active"
               /\ hlsBuffers'[i] = Nil
               /\ \A nameOk \in BOOLEAN, fetch \in {"data", "ErrEOF"} :
                    GetHLSSegment(hlsBuffers', i, FALSE, nameOk, fetch)
                        = "ErrNotFound"]_vars

\* The worker has unsubscribed a stream whose last activity lies the idle
\* limit plus one period back: its subscription is closed, its buffer gone.
C9_Witness ==
    /\ wpc = "delete"
    /\ now - hlsSubTimer[wSid] = IdleLimit + UnsubFreq
    /\ hlsBuffers[wSid] = Nil
    /\ \E r \in Reqs : rsid[r] = wSid /\ sub[r] = "closed"
    /\ GetHLSSegment(hlsBuffers, wSid, FALSE, TRUE, "data") = "ErrNotFound"

SegAnswered == segRes' # "none" /\ (segReq' # segReq \/ segRes' # segRes)

\* The segment handler changed nothing: no subscription, no buffer, the
\* registry and the timers as they were.
SegChangesNothing ==
    UNCHANGED << streams, rtmpToHLS, hlsBuffers, bufObj, nbufs, hlsSubTimer,
                 sub >>

\* C12, as stated: NotFound when the stream id has no buffer or the path no
\* segment name, the result of the fetch otherwise.
C12_Original ==
    [][SegAnswered =>
         /\ segRes' = IF hlsBuffers[segReq'.sid] = Nil \/ ~segReq'.nameOk
                      THEN "ErrNotFound" ELSE segReq'.fetch
         /\ SegChangesNothing]_vars

\* C12: for a master playlist id the segment handler returns nil data and
\* no error, whatever the buffers; for any other stream id it returns
\* ErrNotFound when the id has no HLS buffer or the path no segment name,
\* and the result of the buffer's segment fetch otherwise.  In every case
\* it creates no subscription and no buffer and leaves the registry and
\* the timers unchanged.
C12_SegmentHandlerReadOnly ==
    [][SegAnswered =>
         /\ segRes' = IF segReq'.master THEN "nil"
                      ELSE IF hlsBuffers[segReq'.sid] = Nil \/ ~segReq'.nameOk
                      THEN "ErrNotFound" ELSE segReq'.fetch
         /\ SegChangesNothing]_vars

\* A request for a segment without a name in its path, of a stream that
\* has a buffer and a timer entry, was answered with ErrNotFound.
C12_Witness ==
    /\ segRes = "ErrNotFound"
    /\ ~segReq.master /\ ~segReq.nameOk
    /\ hlsBuffers[segReq.sid] # Nil
    /\ hlsSubTimer[segReq.sid] # NoTime

\* ================================================= claims on telemetry
\* C13: after any sequence of telemetry events the reported success rate
\* lies between 0 and 1.
C13_RateBetweenZeroAndOne ==
    /\ 0 <= mSuccessRate.num
    /\ mSuccessRate.num <= mSuccessRate.den

\* The slots of an averager that hold its tracked entries.
Tracked(sa) ==
    IF sa.end = -1 THEN {}
    ELSE {i \in 0 .. RingSize - 1 :
            (i - sa.start + RingSize) % RingSize
                <= (sa.end - sa.start + RingSize) % RingSize}

\* A tracked entry waits for its result: it is neither transcoded nor
\* failed and emerged at most timeToWaitForError ago.
Pending(sa, t) ==
    \E i \in Tracked(sa) :
        /\ sa.segments[i].transcoded = 0
        /\ ~sa.segments[i].failed
        /\ t - sa.segments[i].emergedTime <= TimeToWaitForError

\* C15, as stated: an averager is deleted only 2 * timeToWaitForError or
\* more after its stream ended.
C15_Original ==
    [][\A n \in Nonces :
         (success[n].present /\ ~success'[n].present)
         => /\ success[n].removed
            /\ cenNow - success[n].removedAt >= 2 * TimeToWaitForError]_vars

\* C15: streamEnded(nonce) deletes the session's averager at once when none
\* of its entries waits for its result; when one does, it marks the
\* averager removed at the current time and the averager then stays in the
\* telemetry state until a sweep of the watcher that runs more than
\* 2 * timeToWaitForError after that time, or until a later streamEnded
\* finds no entry waiting.
C15_EndedSessionKeptWhilePending ==
    [][\A n \in Nonces :
         /\ (streamEnded(n) /\ success[n].present)
            => IF Pending(success[n], cenNow)
               THEN /\ success'[n].present
                    /\ success'[n].removed
                    /\ success'[n].removedAt = cenNow
               ELSE ~success'[n].present
         /\ (success[n].present /\ ~success'[n].present)
            => \/ /\ ~Pending(success[n], cenNow)
                  /\ emergeTimes'[n] = NoEmergeTimes
                  /\ cenEvents' = cenEvents + 1
               \/ /\ success[n].removed
                  /\ cenNow - success[n].removedAt > 2 * TimeToWaitForError
                  /\ cenEvents' = cenEvents]_vars

\* An averager marked removed while an entry waited is still in the
\* telemetry state more than 2 * timeToWaitForError later, the sweep that
\* deletes it being due.
C15_Witness ==
    \E n \in Nonces :
        /\ success[n].present
        /\ success[n].removed
        /\ cenNow - success[n].removedAt > 2 * TimeToWaitForError

\* The sum of a field over the entries in slots of an averager.
RECURSIVE FieldSum(_, _, _)
FieldSum(sa, slots, fld) ==
    IF slots = {} THEN 0
    ELSE LET i == CHOOSE j \in slots : TRUE
         IN  sa.segments[i][fld] + FieldSum(sa, slots \ {i}, fld)

\* The tracked entries that are transcoded, or failed, or older than
\* timeToWaitForError.
Settled(sa, t) ==
    {i \in Tracked(sa) :
        \/ sa.segments[i].transcoded > 0
        \/ sa.segments[i].failed
        \/ t - sa.segments[i].emergedTime > TimeToWaitForError}

EmergedOf(n) == FieldSum(success[n], Settled(success[n], cenNow), "emerged")
TranscodedOf(n) ==
    FieldSum(success[n], Settled(success[n], cenNow), "transcoded")

\* The sessions whose rate has a value, and the mean of their rates.
WithRate == {n \in Nonces : success[n].present /\ EmergedOf(n) > 0}

RECURSIVE RatioSum(_)
RatioSum(ns) ==
    IF ns = {} THEN Rat(0, 1)
    ELSE LET n == CHOOSE m \in ns : TRUE
         IN  RatAdd(RatioSum(ns \ {n}), Rat(TranscodedOf(n), EmergedOf(n)))

MeanRate ==
    IF WithRate = {} THEN RatOne
    ELSE Rat(RatioSum(WithRate).num,
             RatioSum(WithRate).den * Cardinality(WithRate))

C18_ChildrenCancelledBeforeDelete ==
    \A h \in Pubs :
        endpc[h] # "none" =>
            /\ seg[h] \notin {"running", "writeEOF"}
            /\ ~bcast[h]

\* =================================================== moving-average claims
RECURSIVE ValueSum(_)
ValueSum(ss) == IF ss = << >> THEN 0 ELSE Head(ss).value + ValueSum(Tail(ss))

\* The samples whose time lies in the closed interval [from, to].
InClosedWindow(from, to) ==
    SelectSeq(samples, LAMBDA s : from <= s.time /\ s.time <= to)

\* C14: for samples with non-decreasing timestamps, addSample(now, v)
\* returns the arithmetic mean of exactly the samples whose timestamp lies
\* in the closed interval [now - window, now].
C14_MeanOfClosedWindow ==
    samples # << >> =>
        LET win == InClosedWindow(avgNow - WindowSize, avgNow)
        IN  avgRes = Rat(ValueSum(win), Len(win))

\* ========================================================= discovery claims
\* C16: a select of the pool that runs while a refresh cycle is under way
\* returns either the prices the last completed cycle left or those the
\* completed cycle before it left, never a mix of the two cycles.
C16_ReadSeesOneRefresh ==
    poolRead.done => poolRead.seen = poolRead.last \/ poolRead.seen = poolRead.prev

\* C17: every info GetOrchestrators(n) returns has valid ticket parameters
\* and, when a max price is set, a price per pixel not above it; at most n
\* are returned; when the select fails or selects nothing, nothing is
\* returned and no RPC is sent.
C17_ReturnedInfosPassFilter ==
    goRes.status # "none" =>
        /\ \A r \in goRes.infos :
             /\ r.info.tpValid
             /\ goRes.max.has =>
                  /\ r.info.pixels > 0
                  /\ r.info.price * goRes.max.den
                       <= goRes.max.num * r.info.pixels
        /\ Cardinality(goRes.infos) <= goRes.n
        /\ (goRes.selErr \/ goRes.uris = {}) =>
             goRes.infos = {} /\ goRes.rpcs = 0

\* GetOrchestrators(1) with a max price set sent two RPCs and returned one
\* info.
C17_Witness ==
    /\ goRes.status = "ok"
    /\ goRes.max.has /\ goRes.n = 1
    /\ goRes.rpcs = 2
    /\ Cardinality(goRes.infos) = 1

\* ================================================ control-endpoint claims
\* The supplied parameter does not parse as an integer.
BadParam(p) == p # << >> /\ Atoi(p).err

\* The control request failed: /transcode without strmID or with a
\* transcode error, a configuration request with a parameter that does not
\* parse.
RequestFailed(req) ==
    \/ /\ req.endpoint = "transcode"
       /\ req.strmID = "" \/ req.transcodeErr
    \/ /\ req.endpoint = "setBroadcastConfig"
       /\ BadParam(req.price)
    \/ /\ req.endpoint = "setTranscoderConfig"
       /\ BadParam(req.feecut) \/ BadParam(req.rewardcut) \/ BadParam(req.price)

\* C19: a control request that fails is answered with status 500 and a
\* short text.
C19_FailedRequestGets500 ==
    RequestFailed(ctlReq) => ctlRes.status = 500 /\ ctlRes.body # << >>

\* The indices of the entries of the averager sa that are kept for seqNo.
EntriesOf(sa, seqNo) ==
    IF sa.end = -1 THEN {}
    ELSE {i \in 0 .. RingSize - 1 :
            /\ \E k \in 1 .. Len(Walk(sa, sa.start)) : Walk(sa, sa.start)[k] = i
            /\ sa.segments[i].seqNo = seqNo}

\* The last call reported a permanent upload or transcode failure for a
\* segment of a session that had an averager.
PermanentFailureReported ==
    /\ lastEv.op \in {"SegmentUploadFailed", "SegmentTranscodeFailed"}
    /\ lastEv.permanent
    /\ lastEv.had

\* C21: after a permanent upload failure or a permanent transcode failure
\* with any error code for (nonce, seqNo) of a created stream, the averager
\* has an entry for seqNo with failed = true that is not counted as
\* transcoded, no emerge-time entry is left for it, and mSegmentEmerged was
\* recorded once if the entry was pending and not at all otherwise.
C21_PermanentFailureMarksFailed ==
    PermanentFailureReported =>
        LET sa == success[lastEv.nonce]
            at == EntriesOf(sa, lastEv.seqNo)
        IN  /\ at # {}
            /\ \A i \in at :
                  sa.segments[i].failed /\ sa.segments[i].transcoded = 0
            /\ ~IsPending(lastEv.nonce, lastEv.seqNo)
            /\ lastEv.emerged = IF lastEv.pending THEN 1 ELSE 0

\* C22: a sweep of the timeout watcher deletes every emerge-time entry
\* older than timeToWaitForError, records mSegmentTranscodeFailed tagged
\* LostSegment and mSegmentEmerged once for each of them, and leaves every
\* other entry as it was.
C22_SweepDeletesOldEntries ==
    [][watcherWake' # watcherWake =>
         LET old == {nq \in Nonces \X SeqNos :
                       /\ emergeTimes[nq[1]].has
                       /\ emergeTimes[nq[1]].at[nq[2]] # NoCenTime
                       /\ cenNow - emergeTimes[nq[1]].at[nq[2]]
                            > TimeToWaitForError}
         IN  /\ \A n \in Nonces, q \in SeqNos :
                   /\ emergeTimes'[n].has = emergeTimes[n].has
                   /\ emergeTimes'[n].at[q] =
                        IF << n, q >> \in old THEN NoCenTime
                        ELSE emergeTimes[n].at[q]
                   /\ emergedFor'[n][q] =
                        emergedFor[n][q] + IF << n, q >> \in old THEN 1 ELSE 0
             /\ mSegmentEmerged' = mSegmentEmerged + Cardinality(old)
             /\ mSegmentTranscodeFailed' =
                  mSegmentTranscodeFailed + Cardinality(old)
             /\ lastEv'.code = "LostSegment"]_vars

\* A sweep found a segment that emerged too long ago and deleted its entry.
C22_Witness ==
    /\ lastEv.op = "timeoutWatcher"
    /\ lastEv.emerged = 1
    /\ lastEv.failed = 1
    /\ \E q \in SeqNos : IsPending(1, q)

\* C23: for every (nonce, seqNo) recorded by a segmentEmerged call,
\* mSegmentEmerged is recorded at most once by all the later calls of
\* SegmentFullyTranscoded, permanent failures and sweeps of the watcher.
C23_EmergedCountedAtMostOnce ==
    \A n \in Nonces, q \in SeqNos : emergedFor[n][q] <= 1

\* A segment was counted as emerged and a later result for it was reported
\* without a second count.
C23_Witness ==
    /\ lastEv.op \in {"SegmentFullyTranscoded", "SegmentUploadFailed",
                      "SegmentTranscodeFailed"}
    /\ emergedFor[lastEv.nonce][lastEv.seqNo] = 1
    /\ lastEv.emerged = 0
    /\ lastEv.op = "SegmentFullyTranscoded" \/ lastEv.permanent

\* C24: an entry of the success averager shows only what was reported for
\* its own seqNo since the stream was created: when the slot of an evicted
\* seqNo is taken for a new one, neither the failed flag nor the emerged or
\* transcoded count of the evicted entry is carried over.
C24_SlotReuseCarriesNothingOver ==
    \A n \in Nonces :
        success[n].present =>
            \A q \in SeqNos : \A i \in EntriesOf(success[n], q) :
                LET item == success[n].segments[i]
                IN  /\ item.failed => seen[n][q].failed
                    /\ item.transcoded > 0 => seen[n][q].transcoded
                    /\ item.emerged > 0 => seen[n][q].emerged

NothingKept == ~success[1].present /\ ~emergeTimes[1].has

\* C26: after streamEnded(nonce), unless the stream is created again, the
\* averager of the session is deleted under a fair watcher and its
\* emerge-time map is deleted, from some time on for good: no telemetry
\* state of an ended session stays for ever.
C26_EndedSessionEventuallyForgotten ==
    [](lastEv.op = "StreamEnded" =>
         <>(lastEv.op = "StreamCreated" \/ []NothingKept))

\* The step is a call of TranscodeTry.
IsTranscodeTry ==
    /\ lastEv'.op = "TranscodeTry"
    /\ lastEv' # lastEv \/ success' # success

\* C27: TranscodeTry(nonce, seqNo) changes nothing and records nothing when
\* the nonce has no averager; else the first call for a seqNo stores try
\* count 1 with the time of the call and records no retry, and the k-th
\* call records mTranscodeRetried once, labelled k up to 10 and ">10" above.
\* A sweep of the watcher drops the try records of the averagers it keeps
\* whose first try is more than 2 * timeToWaitForError old, so that the
\* next call counts from 1 again, and leaves the others.
C27_TriesCountedAndLabelled ==
    [][/\ IsTranscodeTry =>
            LET n == lastEv'.nonce
                q == lastEv'.seqNo
                old == success[n].tries[q]
            IN  IF ~success[n].present
                THEN success' = success /\ lastEv'.retried = << >>
                ELSE IF old.tries = 0
                THEN /\ success'[n].tries[q] = [tries |-> 1, first |-> cenNow]
                     /\ lastEv'.retried = << >>
                ELSE /\ success'[n].tries[q] =
                          [tries |-> old.tries + 1, first |-> old.first]
                     /\ lastEv'.retried =
                          << IF old.tries + 1 <= 10 THEN Itoa(old.tries + 1)
                             ELSE << ">", "1", "0" >> >>
       /\ watcherWake' # watcherWake =>
            \A n \in Nonces, q \in SeqNos :
                success'[n].present =>
                    success'[n].tries[q] =
                        IF /\ success[n].tries[q].tries > 0
                           /\ cenNow - success[n].tries[q].first
                                > 2 * TimeToWaitForError
                        THEN NoTry ELSE success[n].tries[q]]_vars

\* An eleventh try was labelled ">10", and a try record was dropped by the
\* watcher and counted from 1 again.
C27_Witness ==
    /\ lastEv.op = "TranscodeTry"
    /\ lastEv.retried = << << ">", "1", "0" >> >>
    /\ success[1].tries[0].tries = 11
    /\ success[1].tries[1] = [tries |-> 1, first |-> MaxCenTime]

\* C28: in a refresh cycle every selected orchestrator that replies before
\* the deadline, with a price that is converted, has its record updated
\* with that price, once; one whose URI does not parse or whose RPC or
\* price conversion fails is not updated; and none of these errors is
\* fatal: the process stays up and the cycle returns.
C28_RepliesStoredErrorsNotFatal ==
    /\ ~discFault
    /\ cpc = "recv" /\ recvd = NumOrchs =>
          \A o \in Orchs :
              /\ stored[o] = rpcOk[o]
              /\ stored[o] => dbPrice[o] = wkPrice[o]

\* C29: a refresh cycle receives at most once for each worker it spawned,
\* and no worker is left blocked on its channel when the cycle returns,
\* also when the deadline expired before all of them had delivered.
C29_NoWorkerLeftBlocked ==
    /\ recvd <= NumOrchs
    /\ leaked = 0

\* C30: pollOrchestratorInfo runs one refresh cycle before it returns; when
\* that cycle fails it returns the error and starts no background task;
\* else the task runs one cycle for a tick, and once the context is
\* cancelled it starts no further cycle.
C30_PollerStopsOnCancel ==
    /\ ppc \in {"done", "failed"} => pollCycles >= 1
    /\ ppc # "done" => bg = "none" /\ pollCycles <= 1
    /\ pollCycles <= 1 + ticks
    /\ lateCycles = 0

\* C31: the conversion of a transcoder on the chain to a pool record takes
\* an absent activation round as 0 and an absent deactivation round as
\* max-int64, maps a nil transcoder to a nil record, and never faults.
C31_AbsentRoundsGetDefaults ==
    convOut.status # "none" =>
        IF convIn.isNil THEN convOut.status = "nil"
        ELSE /\ convOut.status = "ok"
             /\ convOut.ServiceURI = convIn.ServiceURI
             /\ convOut.EthereumAddr = convIn.Address
             /\ convOut.ActivationRound =
                  IF convIn.ActivationRound.isNil THEN 0
                  ELSE convIn.ActivationRound.val
             /\ convOut.DeactivationRound =
                  IF convIn.DeactivationRound.isNil THEN MaxInt64
                  ELSE convIn.DeactivationRound.val

\* C32: createBroadcastJob returns the transaction exactly when the job
\* transaction was submitted, its receipt was obtained and the gas used of
\* the receipt differs from the gas limit of the transaction; in every
\* other case it returns ErrBroadcast and no transaction; a failing round
\* initialisation alone does not make it fail.
C32_TxIffMinedAndNotReverted ==
    jobOut.res # "none" =>
        LET good == /\ ~jobIn.submitErr
                    /\ ~jobIn.minedErr
                    /\ jobIn.gasUsed # TxGas
        IN  IF good
            THEN /\ jobOut.res = "ok"
                 /\ jobOut.tx = [strmID |-> jobIn.strmID,
                                 tOps |-> jobIn.profile,
                                 price |-> BroadcastPrice]
            ELSE jobOut.res = "ErrBroadcast" /\ jobOut.tx = NoTx

\* A job was reverted (gas used = gas limit) and refused, and one was
\* created although the round initialisation had failed.
C32_Witness ==
    \/ /\ jobOut.res = "ErrBroadcast"
       /\ ~jobIn.submitErr /\ ~jobIn.minedErr /\ jobIn.gasUsed = TxGas
    \/ jobOut.res = "ok" /\ jobIn.roundInitErr

\* ================================= claims on the subscriber callback
\* C33: the subscriber callback never operates on a missing buffer: no
\* delivery faults, and a delivery of EOF, also one that arrives before any
\* segment (so before the HLS buffer was created), leaves the stream with an
\* HLS buffer that is at EOF.
C33_CallbackNeverOnMissingBuffer ==
    /\ [](~fault)
    /\ [][\A r \in Reqs :
            DeliverMsg(r, TRUE)
            => /\ ~fault'
               /\ cbBuf'[r] # Nil
               /\ bufObj'[cbBuf'[r]].eof]_vars

\* Request r is between its look-up of the HLS buffer and its return.
InFlight(r) == rpc[r] \in {"subscribe", "poll"}

\* C34: two media-playlist requests for the same stream id that run at the
\* same time while no HLS buffer exists yet make at most one subscription
\* and at most one HLS buffer: they never both hold an active subscription,
\* and their callbacks never write into two different buffers.
C34_OneSubscriptionOneBuffer ==
    \A r1, r2 \in Reqs :
        (r1 # r2 /\ InFlight(r1) /\ InFlight(r2) /\ rsid[r1] = rsid[r2])
        => /\ ~(sub[r1] = "active" /\ sub[r2] = "active")
           /\ (cbBuf[r1] # Nil /\ cbBuf[r2] # Nil) => cbBuf[r1] = cbBuf[r2]

\* ======================================= claims on the idle reaper
\* C36: the worker unsubscribes a stream only if its last-activity time is
\* older than the idle limit at the moment of the unsubscribe, and it
\* removes only such an entry from hlsSubTimer: a bump made by a playlist
\* request between the worker's expiry check and its removal of the entry is
\* neither followed by the unsubscribe nor erased.
C36_ReaperSeesBumps ==
    /\ [][\A i \in Sids :
            (wpc = "unsub" /\ wSid = i /\ wpc' = "delete")
            => Expired(hlsSubTimer[i])]_vars
    /\ [][\A i \in Sids :
            (hlsSubTimer[i] # NoTime /\ hlsSubTimer'[i] = NoTime)
            => Expired(hlsSubTimer[i])]_vars

\* No media-playlist request is running.
Quiet == \A q \in Reqs : ~InFlight(q)

\* C35: once playlist requests have stopped, every subscription a request
\* made is eventually unsubscribed, by EOF or by the worker, also the
\* subscription of a request that ended with NotFound or EOF before any
\* playlist was returned (a process that went down holds none).
C35_SubscriptionsEventuallyClosed ==
    <>[]Quiet => <>[](fault \/ \A r \in Reqs : sub[r] # "active")

\* ====================================== claims on /activateTranscoder
\* C37: /activateTranscoder submits no transaction when the node is already
\* an active transcoder; otherwise its steps occur in the order wait for
\* the next round, round initialisation, registration, registration mined,
\* self-bond, bond mined; the self-bond is submitted only after the
\* registration was mined successfully, and a failing step is the last one.
C37_ActivationInOrder ==
    /\ apc = "active" => (asteps = << >> /\ atxs = << >>)
    /\ Len(asteps) <= Len(ActOrder)
    /\ asteps = SubSeq(ActOrder, 1, Len(asteps))
    /\ (\E i \in 1 .. Len(asteps) : asteps[i] = "bond")
        => (aregGas # 0 /\ Succeeded(aregGas))
    /\ afailed # 0 => Len(asteps) = afailed

\* ================================== claims on the configuration requests
\* C38: a /setTranscoderConfig or /setBroadcastConfig request in which a
\* supplied parameter does not parse leaves the whole configuration as it
\* was (fee cut, reward cut, segment price, broadcast price, job profile),
\* and a request with an unknown job profile name leaves the profile as it
\* was.
C38_FailedConfigChangesNothing ==
    /\ [][(/\ ctlReq'.endpoint \in {"setBroadcastConfig", "setTranscoderConfig"}
           /\ RequestFailed(ctlReq'))
          => cfg' = cfg]_vars
    /\ [][(/\ ctlReq'.endpoint = "setBroadcastConfig"
           /\ ctlReq'.job # ""
           /\ VideoProfileLookup(ctlReq'.job).Name = "")
          => cfg'.BroadcastJobVideoProfile = cfg.BroadcastJobVideoProfile]_vars

\* ========================================== claims on the S3 session
\* p is the directory of the path s: what s has up to and with its last "/".
IsDirOf(p, s) ==
    /\ Len(p) <= Len(s)
    /\ p = SubSeq(s, 1, Len(p))
    /\ p = << >> \/ p[Len(p)] = "/"
    /\ \A i \in Len(p) + 1 .. Len(s) : s[i] # "/"

CommonFields == {"acl", "Content-Type", "key", "policy"}
GoogleFields == {"GoogleAccessId", "signature"}
AmzFields ==
    {"x-amz-algorithm", "x-amz-credential", "x-amz-date", "x-amz-signature"}

\* The POST of the last call of postData has the fields of the kind of its
\* session and no others, with acl, Content-Type and policy as they must
\* be, and its key is the directory of the path whole followed by
\* ${filename}.
PostCarries(whole) ==
    LET f == s3Out.fields
    IN  /\ DOMAIN f = CommonFields \cup (IF s3In.os.isGoogle THEN GoogleFields
                                                            ELSE AmzFields)
        /\ f["acl"] = << "public-read" >>
        /\ f["Content-Type"] = s3In.fileType
        /\ f["policy"] = s3In.os.policy
        /\ \E n \in 0 .. Len(whole) :
            /\ IsDirOf(SubSeq(whole, 1, n), whole)
            /\ f["key"] = SubSeq(whole, 1, n) \o << "${filename}" >>
        /\ IF s3In.os.isGoogle
           THEN /\ f["GoogleAccessId"] = s3In.os.credential
                /\ f["signature"] = s3In.os.signature
           ELSE /\ f["x-amz-algorithm"] = << "AWS4-HMAC-SHA256" >>
                /\ f["x-amz-credential"] = s3In.os.credential
                /\ f["x-amz-date"] = s3In.os.xAmzDate
                /\ f["x-amz-signature"] = s3In.os.signature

\* The last call of createPolicy wrote the day of its time, as yyyymmdd,
\* into the credential, between the access key and the region, and the
\* same eight digits followed by T000000Z into the x-amz-date value.
PolicyDatesAgree ==
    LET pol == s3Out.pol
        d == SubSeq(pol.xAmzDate, 1, 8)
    IN  /\ Len(pol.xAmzDate) = 16
        /\ SubSeq(pol.xAmzDate, 9, 16) = Midnight
        /\ DigitsValue(SubSeq(d, 1, 4)) = s3In.t.year
        /\ DigitsValue(SubSeq(d, 5, 6)) = s3In.t.month
        /\ DigitsValue(SubSeq(d, 7, 8)) = s3In.t.day
        /\ pol.credential =
             s3In.key \o << "/" >> \o d \o << "/" >> \o s3In.region
                 \o << "/", "s3", "/", "aws4_request" >>
        /\ pol.policy.base64.credential = pol.credential
        /\ pol.policy.base64.date = pol.xAmzDate

\* C39, as stated: every POST built by postData carries acl=public-read,
\* Content-Type, policy and the key made of the session key's directory
\* and ${filename}, plus the Google fields and no x-amz field for a Google
\* session, the four x-amz fields and no Google field otherwise; the date
\* in the credential of createPolicy is the date part of its x-amz-date,
\* which ends in T000000Z.
C39_Original ==
    /\ s3Out.call = "postData" => PostCarries(s3In.os.key)
    /\ s3Out.call = "createPolicy" => PolicyDatesAgree

\* C39: every POST built by postData carries acl=public-read, Content-Type,
\* policy and a key made of ${filename} after the directory of the session
\* key joined with the file name (the session key itself when it ends in
\* "/" and the file name has no directory), plus the Google fields and no
\* x-amz field for a Google session, the four x-amz fields and no Google
\* field otherwise; the date in the credential of createPolicy is the date
\* part of its x-amz-date, which ends in T000000Z.
C39_PostFieldsAndPolicyDates ==
    /\ s3Out.call = "postData" => PostCarries(s3In.os.key \o s3In.fileName)
    /\ s3Out.call = "createPolicy" => PolicyDatesAgree

\* A file whose name has a directory was posted in an AWS session whose key
\* has two directories: the key field ends the name's directory.
C39_Witness ==
    /\ s3Out.call = "postData"
    /\ ~s3In.os.isGoogle
    /\ s3In.os.key = << "a", "/", "b", "/" >>
    /\ s3In.fileName = << "P144p", "/", "0.ts" >>
    /\ s3Out.fields["key"]
         = << "a", "/", "b", "/", "P144p", "/", "${filename}" >>
    /\ s3Out.fields["x-amz-date"]
         = << "2", "0", "1", "9", "0", "1", "0", "9" >> \o Midnight

====
